---- MODULE Spec2Model ----
(***************************************************************************)
(* A model of the GJKR distributed key generation of keep-core             *)
(* (pkg/beacon/relay/gjkr/protocol.go): the twelve phase functions of a    *)
(* member, the arithmetic they use, and the messages they exchange.        *)
(*                                                                         *)
(* The field is scaled down: the source draws a 256-bit safe prime, the    *)
(* model fixes P = 2Q+1 = 11 with Q = 5.  Member IDs stay below Q, as they *)
(* do for a 256-bit Q.                                                      *)
(***************************************************************************)
EXTENDS Integers, Sequences, FiniteSets, TLC

VARIABLES
    group,      \* Group: groupSize, dishonestThreshold, memberIDs
    members,    \* member ID -> the member's state (the fields of the member structs)
    net,        \* the messages broadcast so far, by message type and sender
    faults,     \* how many deviations the byzantine member has made
    probe       \* the inputs and results of a function applied on its own

vars == <<group, members, net, faults, probe>>

\* ------------------------------------------------------------------------
\* Protocol configuration (DKG.P, DKG.Q, pedersen.VSS G and H)
\* ------------------------------------------------------------------------

Q == 5

P == 2 * Q + 1

G == 3

H == 4

\* The values RandomQ can return: the open interval (0, q).
RandomQ == 1 .. (Q - 1)

\* Z_q, the values a share can take.
Zq == 0 .. (Q - 1)

\* ------------------------------------------------------------------------
\* Bounds of the model
\* ------------------------------------------------------------------------

\* Largest polynomial degree (dishonest threshold) the stand-alone
\* function checks draw.
MaxDegree == 1

\* Largest member ID the stand-alone function checks use.
MaxID == 4

\* The coefficients a member draws in a run of the whole protocol:
\* a_k in 1 .. MaxCoefA and b_k in 1 .. MaxCoefB.
MaxCoefA == 2

MaxCoefB == 1

\* How many deviations the byzantine member makes in a run.
MaxFaults == 2

\* ------------------------------------------------------------------------
\* big.Int arithmetic
\* ------------------------------------------------------------------------

\* pow(id, y): id^y with no modulus.
pow(id, y) == id ^ y

\* big.Int.Exp(x, y, m) for y >= 0 and m > 0.
RECURSIVE Exp(_, _, _)
Exp(x, y, m) ==
    IF y = 0 THEN 1 % m
    ELSE ((x % m) * Exp(x, y - 1, m)) % m

\* big.Int.ModInverse(g, n): the inverse of g in Z/nZ, in [0, n); a negative
\* g is first reduced modulo n.  Where none exists the result is nil,
\* modelled as 0 (no inverse is 0).
ModInverse(g, n) ==
    LET g2 == g % n
    IN  IF \E x \in 1 .. (n - 1) : (g2 * x) % n = 1
        THEN CHOOSE x \in 1 .. (n - 1) : (g2 * x) % n = 1
        ELSE 0

\* pedersen.VSS.CalculateCommitment(a, b, p) = g^a * h^b mod p.
CalculateCommitment(a, b, p) ==
    (Exp(G, a, p) * Exp(H, b, p)) % p

\* ------------------------------------------------------------------------
\* Go maps, and the ephemeral key package (pkg/net/ephemeral)
\* ------------------------------------------------------------------------

EmptyMap == << >>

\* The probe of a run that applies no function on its own.
NoProbe == [pc |-> "none"]

\* The smallest element of a non-empty set of IDs: the model walks a Go map
\* in ascending key order (the sums and products below do not depend on it).
MinOf(S) == CHOOSE x \in S : \A y \in S : x <= y

Has(map, key) == key \in DOMAIN map

\* map[key] = value
Put(map, key, value) ==
    [x \in (DOMAIN map) \cup {key} |-> IF x = key THEN value ELSE map[x]]

\* The elements of a set of IDs in ascending order.
RECURSIVE SeqOfSet(_)
SeqOfSet(S) ==
    IF S = {} THEN <<>>
    ELSE LET x == CHOOSE y \in S : \A z \in S : y <= z
         IN  <<x>> \o SeqOfSet(S \ {x})

\* ephemeral.GenerateKeyPair, called by owner for peer.  The private key is
\* named by the pair (owner, peer): every generated key is a fresh one.
GenerateKeyPair(owner, peer) ==
    [PrivateKey |-> <<owner, peer>>, PublicKey |-> [of |-> <<owner, peer>>]]

\* PrivateKey.Ecdh(PublicKey): the same key on both endpoints.
Ecdh(privateKey, publicKey) == {privateKey, publicKey.of}

\* PeerSharesMessage.addShares: the pair (s, t) encrypted for receiverID.
addShares(sharesMessage, receiverID, shareS, shareT, symmetricKey) ==
    [sharesMessage EXCEPT !.shares =
        Put(@, receiverID, [key |-> symmetricKey, shareS |-> shareS, shareT |-> shareT])]

\* PeerSharesMessage.decryptShareS / decryptShareT succeed when the message
\* holds shares for receiverID that were encrypted under symmetricKey.
canDecrypt(sharesMessage, receiverID, symmetricKey) ==
    /\ Has(sharesMessage.shares, receiverID)
    /\ sharesMessage.shares[receiverID].key = symmetricKey

decryptShareS(sharesMessage, receiverID) == sharesMessage.shares[receiverID].shareS

decryptShareT(sharesMessage, receiverID) == sharesMessage.shares[receiverID].shareT

\* ------------------------------------------------------------------------
\* Evidence log
\* ------------------------------------------------------------------------

newDkgEvidenceLog == [ephemeral |-> EmptyMap, shares |-> EmptyMap]

\* A slip in the evidence log: a later message replaces an earlier one.
PutEphemeralMessageLastWins(evidenceLog, message) ==
    [evidenceLog EXCEPT !.ephemeral = Put(@, message.senderID, message)]

\* PutEphemeralMessage: the first message of a sender is kept.
PutEphemeralMessage(evidenceLog, message) ==
    IF Has(evidenceLog.ephemeral, message.senderID) THEN evidenceLog
    ELSE [evidenceLog EXCEPT !.ephemeral = Put(@, message.senderID, message)]

\* PutPeerSharesMessage: the first message of a sender is kept.
PutPeerSharesMessage(evidenceLog, message) ==
    IF Has(evidenceLog.shares, message.senderID) THEN evidenceLog
    ELSE [evidenceLog EXCEPT !.shares = Put(@, message.senderID, message)]

\* ------------------------------------------------------------------------
\* The member (the fields of the member structs of Phases 1 to 12)
\* ------------------------------------------------------------------------

NoError == ""

NewMember(id) ==
    [ID |-> id,
     pc |-> 0,                   \* the last phase this member completed
     err |-> NoError,            \* the error that ended this member's run
     ephemeralKeyPairs |-> EmptyMap,
     symmetricKeys |-> EmptyMap,
     evidenceLog |-> newDkgEvidenceLog,
     secretCoefficients |-> <<>>,
     selfSecretShareS |-> 0,
     selfSecretShareT |-> 0,
     receivedValidSharesS |-> EmptyMap,
     receivedValidSharesT |-> EmptyMap,
     receivedValidPeerCommitments |-> EmptyMap,
     disqualifiedPhase5 |-> <<>>,  \* what Phase 5 resolution returned
     errPhase5 |-> NoError,
     masterPrivateKeyShare |-> 0,
     shareT |-> 0,
     publicKeySharePoints |-> <<>>,
     receivedValidPeerPublicKeySharePoints |-> EmptyMap,
     disqualifiedPhase9 |-> <<>>,  \* what Phase 9 resolution returned
     errPhase9 |-> NoError,
     reconstructedIndividualPrivateKeys |-> EmptyMap,
     reconstructedIndividualPublicKeys |-> EmptyMap,
     groupPublicKey |-> 0]

\* ------------------------------------------------------------------------
\* Phase 1 and Phase 2: ephemeral keys, symmetric keys
\* ------------------------------------------------------------------------

RECURSIVE generateKeyPairsFrom(_, _, _, _)
generateKeyPairsFrom(em, memberIDs, n, ephemeralKeys) ==
    IF n > Len(memberIDs)
    THEN [member |-> em,
          message |-> [senderID |-> em.ID, ephemeralPublicKeys |-> ephemeralKeys]]
    ELSE LET member == memberIDs[n]
             ephemeralKeyPair == GenerateKeyPair(em.ID, member)
         IN  IF member = em.ID
             THEN generateKeyPairsFrom(em, memberIDs, n + 1, ephemeralKeys)
             ELSE generateKeyPairsFrom(
                    [em EXCEPT !.ephemeralKeyPairs = Put(@, member, ephemeralKeyPair)],
                    memberIDs, n + 1,
                    Put(ephemeralKeys, member, ephemeralKeyPair.PublicKey))

\* A slip in the loop: a key pair is generated for the member itself too.
RECURSIVE generateKeyPairsForAll(_, _, _, _)
generateKeyPairsForAll(em, memberIDs, n, ephemeralKeys) ==
    IF n > Len(memberIDs)
    THEN [member |-> em,
          message |-> [senderID |-> em.ID, ephemeralPublicKeys |-> ephemeralKeys]]
    ELSE LET member == memberIDs[n]
             ephemeralKeyPair == GenerateKeyPair(em.ID, member)
         IN  generateKeyPairsForAll(
                [em EXCEPT !.ephemeralKeyPairs = Put(@, member, ephemeralKeyPair)],
                memberIDs, n + 1,
                Put(ephemeralKeys, member, ephemeralKeyPair.PublicKey))

GenerateEphemeralKeyPairForAll(em, memberIDs) ==
    generateKeyPairsForAll(em, memberIDs, 1, EmptyMap)

\* GenerateEphemeralKeyPair: a key pair for every other group member.
GenerateEphemeralKeyPair(em, memberIDs) ==
    generateKeyPairsFrom(em, memberIDs, 1, EmptyMap)

\* A slip in the ECDH: the private key generated for the sender is combined
\* with the public key generated for the sender, not with the public key
\* the sender generated for this member.
RECURSIVE generateSymmetricKeysFromOwnKey(_, _, _)
generateSymmetricKeysFromOwnKey(sm, ephemeralPubKeyMessages, n) ==
    IF n > Len(ephemeralPubKeyMessages) THEN sm
    ELSE LET message == ephemeralPubKeyMessages[n]
             logged == [sm EXCEPT !.evidenceLog = PutEphemeralMessage(@, message)]
             otherMember == message.senderID
         IN  IF ~Has(sm.ephemeralKeyPairs, otherMember)
             THEN [logged EXCEPT !.err = "ephemeral key pair does not exist"]
             ELSE generateSymmetricKeysFromOwnKey(
                    [logged EXCEPT !.symmetricKeys = Put(@, otherMember,
                        Ecdh(sm.ephemeralKeyPairs[otherMember].PrivateKey,
                             sm.ephemeralKeyPairs[otherMember].PublicKey))],
                    ephemeralPubKeyMessages, n + 1)

RECURSIVE generateSymmetricKeysFrom(_, _, _)
generateSymmetricKeysFrom(sm, ephemeralPubKeyMessages, n) ==
    IF n > Len(ephemeralPubKeyMessages) THEN sm
    ELSE LET message == ephemeralPubKeyMessages[n]
             logged == [sm EXCEPT !.evidenceLog = PutEphemeralMessage(@, message)]
             otherMember == message.senderID
         IN  IF ~Has(sm.ephemeralKeyPairs, otherMember)
             THEN [logged EXCEPT !.err = "ephemeral key pair does not exist"]
             ELSE generateSymmetricKeysFrom(
                    [logged EXCEPT !.symmetricKeys = Put(@, otherMember,
                        Ecdh(sm.ephemeralKeyPairs[otherMember].PrivateKey,
                             message.ephemeralPublicKeys[sm.ID]))],
                    ephemeralPubKeyMessages, n + 1)

\* A slip in the failing branch: the loop ends there and no error is
\* returned.
GenerateSymmetricKeysWithoutError(sm, ephemeralPubKeyMessages) ==
    [generateSymmetricKeysFrom(sm, ephemeralPubKeyMessages, 1) EXCEPT !.err = NoError]

\* GenerateSymmetricKeys: ECDH of the private key generated for the sender
\* with the public key the sender generated for this member.
GenerateSymmetricKeys(sm, ephemeralPubKeyMessages) ==
    generateSymmetricKeysFrom(sm, ephemeralPubKeyMessages, 1)

\* ------------------------------------------------------------------------
\* Phase 3: polynomials, shares, commitments
\* ------------------------------------------------------------------------

\* generatePolynomial: every slice of degree+1 coefficients of (0, q).
\* Coefficient k is element k+1 of the sequence.
generatePolynomial(degree, coefs) == [1 .. (degree + 1) -> coefs]

RECURSIVE evaluateFrom(_, _, _, _)
evaluateFrom(memberID, coefficients, k, result) ==
    IF k > Len(coefficients) THEN result
    ELSE evaluateFrom(memberID, coefficients, k + 1,
            (result + coefficients[k] * pow(memberID, k - 1)) % Q)

\* A slip in the exponent: the constant term is dropped from the sum.
evaluateMemberShareWithoutConstant(memberID, coefficients) ==
    evaluateFrom(memberID, coefficients, 2, 0)

\* evaluateMemberShare: s_j = sum of a_k * j^k mod q, for k in [0..T].
evaluateMemberShare(memberID, coefficients) ==
    evaluateFrom(memberID, coefficients, 1, 0)

\* A slip: the secret coefficient a_0 is sent ahead of the commitments.
calculateCommitmentsAfterSecret(coefficientsA, coefficientsB) ==
    <<coefficientsA[1]>> \o
        [k \in 1 .. Len(coefficientsA) |->
            CalculateCommitment(coefficientsA[k], coefficientsB[k], P)]

\* The commitments of Phase 3: C_k = g^a_k * h^b_k mod p.
calculateCommitments(coefficientsA, coefficientsB) ==
    [k \in 1 .. Len(coefficientsA) |->
        CalculateCommitment(coefficientsA[k], coefficientsB[k], P)]

RECURSIVE commitmentsProductFrom(_, _, _, _)
commitmentsProductFrom(commitments, memberID, k, product) ==
    IF k > Len(commitments) THEN product
    ELSE commitmentsProductFrom(commitments, memberID, k + 1,
            (product * Exp(commitments[k], pow(memberID, k - 1), P)) % P)

\* A slip in the expected product: h^t is left out.
areSharesValidIgnoringT(shareS, shareT, commitments, memberID) ==
    CalculateCommitment(shareS, 0, P)
        = commitmentsProductFrom(commitments, memberID, 1, 1)

\* areSharesValidAgainstCommitments:
\* prod C_j[k]^(i^k) mod p = g^s_ji * h^t_ji mod p.
areSharesValidAgainstCommitments(shareS, shareT, commitments, memberID) ==
    CalculateCommitment(shareS, shareT, P)
        = commitmentsProductFrom(commitments, memberID, 1, 1)

\* ------------------------------------------------------------------------
\* Phase 3: CalculateMembersSharesAndCommitments
\* ------------------------------------------------------------------------

newPeerSharesMessage(senderID) == [senderID |-> senderID, shares |-> EmptyMap]

RECURSIVE calculateSharesFrom(_, _, _, _, _, _)
calculateSharesFrom(cm, memberIDs, n, coefficientsA, coefficientsB, sharesMessage) ==
    IF n > Len(memberIDs)
    THEN [member |-> cm, sharesMessage |-> sharesMessage,
          commitmentsMessage |->
              [senderID |-> cm.ID,
               commitments |-> calculateCommitments(coefficientsA, coefficientsB)]]
    ELSE LET receiverID == memberIDs[n]
             memberShareS == evaluateMemberShare(receiverID, coefficientsA)
             memberShareT == evaluateMemberShare(receiverID, coefficientsB)
         IN  IF cm.ID = receiverID
             THEN calculateSharesFrom(
                    [cm EXCEPT !.selfSecretShareS = memberShareS,
                               !.selfSecretShareT = memberShareT],
                    memberIDs, n + 1, coefficientsA, coefficientsB, sharesMessage)
             ELSE IF ~Has(cm.symmetricKeys, receiverID)
             THEN [member |-> [cm EXCEPT !.err = "no symmetric key for receiver"],
                   sharesMessage |-> <<>>, commitmentsMessage |-> <<>>]
             ELSE calculateSharesFrom(cm, memberIDs, n + 1,
                    coefficientsA, coefficientsB,
                    addShares(sharesMessage, receiverID, memberShareS,
                              memberShareT, cm.symmetricKeys[receiverID]))

\* A slip in the loop: the member's own shares are put in the message too.
CalculateSharesForAll(cm, memberIDs, coefficientsA, coefficientsB) ==
    LET r == calculateSharesFrom([cm EXCEPT !.secretCoefficients = coefficientsA],
                memberIDs, 1, coefficientsA, coefficientsB, newPeerSharesMessage(cm.ID))
    IN  IF r.member.err # NoError THEN r
        ELSE [r EXCEPT !.sharesMessage =
                addShares(@, cm.ID, r.member.selfSecretShareS,
                          r.member.selfSecretShareT, {})]

\* CalculateMembersSharesAndCommitments, for the two polynomials it drew.
CalculateMembersSharesAndCommitments(cm, memberIDs, coefficientsA, coefficientsB) ==
    calculateSharesFrom([cm EXCEPT !.secretCoefficients = coefficientsA],
        memberIDs, 1, coefficientsA, coefficientsB, newPeerSharesMessage(cm.ID))

\* ------------------------------------------------------------------------
\* Phase 4: VerifyReceivedSharesAndCommitmentsMessages
\* ------------------------------------------------------------------------

\* The index of the first shares message of the given sender, 0 if none.
firstSharesMessageOf(sharesMessages, senderID) ==
    IF \E n \in 1 .. Len(sharesMessages) : sharesMessages[n].senderID = senderID
    THEN CHOOSE n \in 1 .. Len(sharesMessages) :
            /\ sharesMessages[n].senderID = senderID
            /\ \A k \in 1 .. (n - 1) : sharesMessages[k].senderID # senderID
    ELSE 0

NoMessage == <<>>

\* The loop over the commitments messages, from message n on.
RECURSIVE verifySharesFrom(_, _, _, _, _)
verifySharesFrom(cvm, sharesMessages, commitmentsMessages, n, accusedMembersKeys) ==
    IF n > Len(commitmentsMessages)
    THEN [member |-> cvm,
          message |-> [senderID |-> cvm.ID, accusedMembersKeys |-> accusedMembersKeys],
          err |-> NoError]
    ELSE LET commitmentsMessage == commitmentsMessages[n]
             senderID == commitmentsMessage.senderID
             found == firstSharesMessageOf(sharesMessages, senderID)
             sharesMessage == sharesMessages[found]
             symmetricKey == cvm.symmetricKeys[senderID]
             shareS == decryptShareS(sharesMessage, cvm.ID)
             shareT == decryptShareT(sharesMessage, cvm.ID)
         IN  IF found = 0
             THEN [member |-> cvm, message |-> NoMessage,
                   err |-> "cannot find shares message from member "
                                \o ToString(senderID)]
             ELSE IF ~Has(cvm.symmetricKeys, senderID)
             THEN [member |-> cvm, message |-> NoMessage,
                   err |-> "no symmetric key for sender " \o ToString(senderID)]
             ELSE IF ~canDecrypt(sharesMessage, cvm.ID, symmetricKey)
             THEN [member |-> cvm, message |-> NoMessage,
                   err |-> "could not decrypt share S"]
             ELSE IF ~areSharesValidAgainstCommitments(
                        shareS, shareT, commitmentsMessage.commitments, cvm.ID)
             THEN verifySharesFrom(cvm, sharesMessages, commitmentsMessages, n + 1,
                    Put(accusedMembersKeys, senderID,
                        cvm.ephemeralKeyPairs[senderID].PrivateKey))
             ELSE verifySharesFrom(
                    [cvm EXCEPT
                        !.receivedValidSharesS = Put(@, senderID, shareS),
                        !.receivedValidSharesT = Put(@, senderID, shareT),
                        !.receivedValidPeerCommitments =
                            Put(@, senderID, commitmentsMessage.commitments)],
                    sharesMessages, commitmentsMessages, n + 1, accusedMembersKeys)

\* A slip in the loop: a commitments message without a shares message of
\* its sender is passed over.
VerifySkippingUnmatched(cvm, sharesMessages, commitmentsMessages) ==
    verifySharesFrom(cvm, sharesMessages,
        SelectSeq(commitmentsMessages,
            LAMBDA m : firstSharesMessageOf(sharesMessages, m.senderID) # 0),
        1, EmptyMap)

\* A slip in the design: a peer that sent no commitments message is accused.
VerifyAccusingSilent(cvm, sharesMessages, commitmentsMessages) ==
    LET r == verifySharesFrom(cvm, sharesMessages, commitmentsMessages, 1, EmptyMap)
        silent == (DOMAIN cvm.symmetricKeys)
                    \ {commitmentsMessages[n].senderID : n \in DOMAIN commitmentsMessages}
    IN  IF r.err # NoError THEN r
        ELSE [r EXCEPT !.message.accusedMembersKeys =
                [j \in (DOMAIN @) \cup silent |->
                    IF j \in DOMAIN @ THEN @[j]
                    ELSE cvm.ephemeralKeyPairs[j].PrivateKey]]

\* VerifyReceivedSharesAndCommitmentsMessages: the member after the call,
\* the accusation message and the error it returns.
VerifyReceivedSharesAndCommitmentsMessages(cvm, sharesMessages, commitmentsMessages) ==
    verifySharesFrom(cvm, sharesMessages, commitmentsMessages, 1, EmptyMap)

\* ------------------------------------------------------------------------
\* Phase 5: ResolveSecretSharesAccusationsMessages
\* ------------------------------------------------------------------------

\* recoverSymmetricKey: "" when the key can be recovered, the error otherwise.
recoverSymmetricKeyError(evidenceLog, senderID, receiverID) ==
    IF ~Has(evidenceLog.ephemeral, senderID)
    THEN "no ephemeral public key message for sender " \o ToString(senderID)
    ELSE IF ~Has(evidenceLog.ephemeral[senderID].ephemeralPublicKeys, receiverID)
    THEN "no ephemeral public key generated for receiver " \o ToString(receiverID)
    ELSE NoError

\* recoverSymmetricKey: ECDH of the revealed private key of the receiver
\* with the public key the sender broadcast for the receiver.
recoverSymmetricKey(evidenceLog, senderID, receiverID, receiverPrivateKey) ==
    Ecdh(receiverPrivateKey,
         evidenceLog.ephemeral[senderID].ephemeralPublicKeys[receiverID])

\* recoverShares: "" when both shares can be decrypted, the error otherwise.
recoverSharesError(evidenceLog, senderID, receiverID, symmetricKey) ==
    IF ~Has(evidenceLog.shares, senderID)
    THEN "no peer shares message for sender " \o ToString(senderID)
    ELSE IF ~canDecrypt(evidenceLog.shares[senderID], receiverID, symmetricKey)
    THEN "cannot decrypt share"
    ELSE NoError

\* recoverShares: the pair (s, t) the sender sent to the receiver.
recoverShares(evidenceLog, senderID, receiverID) ==
    [shareS |-> decryptShareS(evidenceLog.shares[senderID], receiverID),
     shareT |-> decryptShareT(evidenceLog.shares[senderID], receiverID)]

\* The sequences that enumerate a set.
Perms(S) ==
    {f \in [1 .. Cardinality(S) -> S] : \A x \in S : \E k \in DOMAIN f : f[k] = x}

\* The accusations of one message, its accused members visited in the given
\* order.
accusationsIn(message, accused) ==
    [k \in 1 .. Len(accused) |->
        [accuserID |-> message.senderID,
         accusedID |-> accused[k],
         revealedAccuserPrivateKey |-> message.accusedMembersKeys[accused[k]]]]

\* The accusations of a list of accusation messages in every order the two
\* loops can visit them: the messages in the order of the slice, the accused
\* of a message in any order, accusedMembersKeys being a map whose iteration
\* order is unspecified.
RECURSIVE accusationsOf(_)
accusationsOf(messages) ==
    IF messages = <<>> THEN {<<>>}
    ELSE {accusationsIn(Head(messages), accused) \o rest :
            accused \in Perms(DOMAIN Head(messages).accusedMembersKeys),
            rest \in accusationsOf(Tail(messages))}

\* The commitments recorded for a member; nil (no commitments) if none.
commitmentsOf(member, id) ==
    IF Has(member.receivedValidPeerCommitments, id)
    THEN member.receivedValidPeerCommitments[id]
    ELSE <<>>

\* A slip in the loop: it stops at the first unfounded accusation.
RECURSIVE resolveSharesFromStoppingAtAccuser(_, _, _, _)
resolveSharesFromStoppingAtAccuser(sjm, accusations, n, disqualifiedMembers) ==
    IF n > Len(accusations)
    THEN [member |-> sjm, disqualifiedMembers |-> disqualifiedMembers, err |-> NoError]
    ELSE LET a == accusations[n]
             keyError == recoverSymmetricKeyError(
                            sjm.evidenceLog, a.accusedID, a.accuserID)
             symmetricKey == recoverSymmetricKey(sjm.evidenceLog,
                            a.accusedID, a.accuserID, a.revealedAccuserPrivateKey)
             sharesError == recoverSharesError(
                            sjm.evidenceLog, a.accusedID, a.accuserID, symmetricKey)
             shares == recoverShares(sjm.evidenceLog, a.accusedID, a.accuserID)
         IN  IF sjm.ID = a.accuserID \/ sjm.ID = a.accusedID
             THEN [member |-> sjm, disqualifiedMembers |-> <<>>,
                   err |-> "current member cannot be a part of a dispute"]
             ELSE IF keyError # NoError
             THEN [member |-> sjm, disqualifiedMembers |-> <<>>,
                   err |-> "could not recover symmetric key [" \o keyError \o "]"]
             ELSE IF sharesError # NoError
             THEN [member |-> sjm, disqualifiedMembers |-> <<>>,
                   err |-> "could not decrypt shares [" \o sharesError \o "]"]
             ELSE IF areSharesValidAgainstCommitments(
                        shares.shareS, shares.shareT,
                        commitmentsOf(sjm, a.accusedID), a.accuserID)
             THEN [member |-> sjm,
                   disqualifiedMembers |-> Append(disqualifiedMembers, a.accuserID),
                   err |-> NoError]
             ELSE resolveSharesFromStoppingAtAccuser(sjm, accusations, n + 1,
                        Append(disqualifiedMembers, a.accusedID))

\* The loops of ResolveSecretSharesAccusationsMessages over the accusations
\* in the order they are visited: the member after the call (the function
\* assigns to none of its fields), the IDs it returns (nil with an error)
\* and the error.
RECURSIVE resolveSharesFrom(_, _, _, _)
resolveSharesFrom(sjm, accusations, n, disqualifiedMembers) ==
    IF n > Len(accusations)
    THEN [member |-> sjm, disqualifiedMembers |-> disqualifiedMembers, err |-> NoError]
    ELSE LET a == accusations[n]
             keyError == recoverSymmetricKeyError(
                            sjm.evidenceLog, a.accusedID, a.accuserID)
             symmetricKey == recoverSymmetricKey(sjm.evidenceLog,
                            a.accusedID, a.accuserID, a.revealedAccuserPrivateKey)
             sharesError == recoverSharesError(
                            sjm.evidenceLog, a.accusedID, a.accuserID, symmetricKey)
             shares == recoverShares(sjm.evidenceLog, a.accusedID, a.accuserID)
         IN  IF sjm.ID = a.accuserID \/ sjm.ID = a.accusedID
             THEN [member |-> sjm, disqualifiedMembers |-> <<>>,
                   err |-> "current member cannot be a part of a dispute"]
             ELSE IF keyError # NoError
             THEN [member |-> sjm, disqualifiedMembers |-> <<>>,
                   err |-> "could not recover symmetric key [" \o keyError \o "]"]
             ELSE IF sharesError # NoError
             THEN [member |-> sjm, disqualifiedMembers |-> <<>>,
                   err |-> "could not decrypt shares [" \o sharesError \o "]"]
             ELSE IF areSharesValidAgainstCommitments(
                        shares.shareS, shares.shareT,
                        commitmentsOf(sjm, a.accusedID), a.accuserID)
             THEN resolveSharesFrom(sjm, accusations, n + 1,
                        Append(disqualifiedMembers, a.accuserID))
             ELSE resolveSharesFrom(sjm, accusations, n + 1,
                        Append(disqualifiedMembers, a.accusedID))

\* ResolveSecretSharesAccusationsMessages: the outcomes of a call (the IDs
\* it returns and its error), one for each order in which the accused of
\* the messages can be visited.
ResolveSecretSharesAccusationsMessages(sjm, messages) ==
    {resolveSharesFrom(sjm, accusations, 1, <<>>) :
        accusations \in accusationsOf(messages)}

\* ------------------------------------------------------------------------
\* Phase 6: CombineMemberShares
\* ------------------------------------------------------------------------

RECURSIVE sumModQ(_, _, _)
sumModQ(shares, rest, combined) ==
    IF rest = {} THEN combined
    ELSE LET j == MinOf(rest)
         IN  sumModQ(shares, rest \ {j}, (combined + shares[j]) % Q)

\* A slip in the first line: the sum starts from 0 instead of from s_ii.
CombineMemberSharesWithoutSelf(qm) ==
    [qm EXCEPT
        !.masterPrivateKeyShare =
            sumModQ(qm.receivedValidSharesS, DOMAIN qm.receivedValidSharesS, 0),
        !.shareT =
            sumModQ(qm.receivedValidSharesT, DOMAIN qm.receivedValidSharesT, 0)]

\* CombineMemberShares: x_i = s_ii + sum of s_ji mod q, x'_i likewise.
CombineMemberShares(qm) ==
    [qm EXCEPT
        !.masterPrivateKeyShare =
            sumModQ(qm.receivedValidSharesS, DOMAIN qm.receivedValidSharesS,
                    qm.selfSecretShareS),
        !.shareT =
            sumModQ(qm.receivedValidSharesT, DOMAIN qm.receivedValidSharesT,
                    qm.selfSecretShareT)]

\* ------------------------------------------------------------------------
\* Phase 7: public key share points
\* ------------------------------------------------------------------------

\* CalculatePublicKeySharePoints: A_k = g^a_k mod p for k in [0..T].
CalculatePublicKeySharePoints(secretCoefficients) ==
    [k \in 1 .. Len(secretCoefficients) |-> Exp(G, secretCoefficients[k], P)]

\* ------------------------------------------------------------------------
\* Phase 8: VerifyPublicKeySharePoints
\* ------------------------------------------------------------------------

RECURSIVE pointsProductFrom(_, _, _, _)
pointsProductFrom(publicKeySharePoints, senderID, k, product) ==
    IF k > Len(publicKeySharePoints) THEN product
    ELSE pointsProductFrom(publicKeySharePoints, senderID, k + 1,
            (product * Exp(publicKeySharePoints[k], pow(senderID, k - 1), P)) % P)

\* A slip in the exponent: the powers of the member ID are left out.
isShareValidIgnoringID(senderID, shareS, publicKeySharePoints) ==
    Exp(G, shareS, P) = pointsProductFrom(publicKeySharePoints, 1, 1, 1)

\* isShareValidAgainstPublicKeySharePoints:
\* prod A_jk^(i^k) mod p = g^s_ji mod p.
isShareValidAgainstPublicKeySharePoints(senderID, shareS, publicKeySharePoints) ==
    Exp(G, shareS, P) = pointsProductFrom(publicKeySharePoints, senderID, 1, 1)

RECURSIVE verifyPointsFrom(_, _, _, _)
verifyPointsFrom(sm, messages, n, accusedMembersKeys) ==
    IF n > Len(messages)
    THEN [member |-> sm,
          message |-> [senderID |-> sm.ID, accusedMembersKeys |-> accusedMembersKeys],
          err |-> NoError]
    ELSE LET message == messages[n]
         IN  IF ~Has(sm.receivedValidSharesS, message.senderID)
             THEN \* the share is nil: big.Int.Exp dereferences it
                  [member |-> sm, message |-> NoMessage,
                   err |-> "panic: nil share"]
             ELSE IF ~isShareValidAgainstPublicKeySharePoints(sm.ID,
                        sm.receivedValidSharesS[message.senderID],
                        message.publicKeySharePoints)
             THEN verifyPointsFrom(sm, messages, n + 1,
                    Put(accusedMembersKeys, message.senderID,
                        sm.ephemeralKeyPairs[message.senderID].PrivateKey))
             ELSE verifyPointsFrom(
                    [sm EXCEPT !.receivedValidPeerPublicKeySharePoints =
                        Put(@, message.senderID, message.publicKeySharePoints)],
                    messages, n + 1, accusedMembersKeys)

\* VerifyPublicKeySharePoints: the member after the call, the accusation
\* message and the error.
VerifyPublicKeySharePoints(sm, messages) ==
    verifyPointsFrom(sm, messages, 1, EmptyMap)

\* ------------------------------------------------------------------------
\* Phase 9: ResolvePublicKeySharePointsAccusationsMessages
\* ------------------------------------------------------------------------

\* The points recorded for a member; nil (no points) if none.
pointsOf(member, id) ==
    IF Has(member.receivedValidPeerPublicKeySharePoints, id)
    THEN member.receivedValidPeerPublicKeySharePoints[id]
    ELSE <<>>

\* A slip in the guard: the member is not checked against the accuser.
RECURSIVE resolvePointsFromJudgingOwnAccusation(_, _, _, _)
resolvePointsFromJudgingOwnAccusation(pjm, accusations, n, disqualifiedMembers) ==
    IF n > Len(accusations)
    THEN [member |-> pjm, disqualifiedMembers |-> disqualifiedMembers, err |-> NoError]
    ELSE LET a == accusations[n]
             keyError == recoverSymmetricKeyError(
                            pjm.evidenceLog, a.accusedID, a.accuserID)
             symmetricKey == recoverSymmetricKey(pjm.evidenceLog,
                            a.accusedID, a.accuserID, a.revealedAccuserPrivateKey)
             sharesError == recoverSharesError(
                            pjm.evidenceLog, a.accusedID, a.accuserID, symmetricKey)
             shares == recoverShares(pjm.evidenceLog, a.accusedID, a.accuserID)
         IN  IF pjm.ID = a.accusedID
             THEN [member |-> pjm, disqualifiedMembers |-> <<>>,
                   err |-> "current member cannot be a part of a dispute"]
             ELSE IF keyError # NoError
             THEN [member |-> pjm, disqualifiedMembers |-> <<>>,
                   err |-> "could not recover symmetric key [" \o keyError \o "]"]
             ELSE IF sharesError # NoError
             THEN [member |-> pjm, disqualifiedMembers |-> <<>>,
                   err |-> "could not decrypt share S [" \o sharesError \o "]"]
             ELSE IF isShareValidAgainstPublicKeySharePoints(
                        a.accuserID, shares.shareS, pointsOf(pjm, a.accusedID))
             THEN resolvePointsFromJudgingOwnAccusation(pjm, accusations, n + 1,
                        Append(disqualifiedMembers, a.accuserID))
             ELSE resolvePointsFromJudgingOwnAccusation(pjm, accusations, n + 1,
                        Append(disqualifiedMembers, a.accusedID))

\* A slip in the unfounded branch: the accuser is not appended.
RECURSIVE resolvePointsFromSparingAccuser(_, _, _, _)
resolvePointsFromSparingAccuser(pjm, accusations, n, disqualifiedMembers) ==
    IF n > Len(accusations)
    THEN [member |-> pjm, disqualifiedMembers |-> disqualifiedMembers, err |-> NoError]
    ELSE LET a == accusations[n]
             keyError == recoverSymmetricKeyError(
                            pjm.evidenceLog, a.accusedID, a.accuserID)
             symmetricKey == recoverSymmetricKey(pjm.evidenceLog,
                            a.accusedID, a.accuserID, a.revealedAccuserPrivateKey)
             sharesError == recoverSharesError(
                            pjm.evidenceLog, a.accusedID, a.accuserID, symmetricKey)
             shares == recoverShares(pjm.evidenceLog, a.accusedID, a.accuserID)
         IN  IF pjm.ID = a.accuserID \/ pjm.ID = a.accusedID
             THEN [member |-> pjm, disqualifiedMembers |-> <<>>,
                   err |-> "current member cannot be a part of a dispute"]
             ELSE IF keyError # NoError
             THEN [member |-> pjm, disqualifiedMembers |-> <<>>,
                   err |-> "could not recover symmetric key [" \o keyError \o "]"]
             ELSE IF sharesError # NoError
             THEN [member |-> pjm, disqualifiedMembers |-> <<>>,
                   err |-> "could not decrypt share S [" \o sharesError \o "]"]
             ELSE IF isShareValidAgainstPublicKeySharePoints(
                        a.accuserID, shares.shareS, pointsOf(pjm, a.accusedID))
             THEN resolvePointsFromSparingAccuser(pjm, accusations, n + 1,
                        disqualifiedMembers)
             ELSE resolvePointsFromSparingAccuser(pjm, accusations, n + 1,
                        Append(disqualifiedMembers, a.accusedID))

\* The loops of ResolvePublicKeySharePointsAccusationsMessages, as for
\* Phase 5.
RECURSIVE resolvePointsFrom(_, _, _, _)
resolvePointsFrom(pjm, accusations, n, disqualifiedMembers) ==
    IF n > Len(accusations)
    THEN [member |-> pjm, disqualifiedMembers |-> disqualifiedMembers, err |-> NoError]
    ELSE LET a == accusations[n]
             keyError == recoverSymmetricKeyError(
                            pjm.evidenceLog, a.accusedID, a.accuserID)
             symmetricKey == recoverSymmetricKey(pjm.evidenceLog,
                            a.accusedID, a.accuserID, a.revealedAccuserPrivateKey)
             sharesError == recoverSharesError(
                            pjm.evidenceLog, a.accusedID, a.accuserID, symmetricKey)
             shares == recoverShares(pjm.evidenceLog, a.accusedID, a.accuserID)
         IN  IF pjm.ID = a.accuserID \/ pjm.ID = a.accusedID
             THEN [member |-> pjm, disqualifiedMembers |-> <<>>,
                   err |-> "current member cannot be a part of a dispute"]
             ELSE IF keyError # NoError
             THEN [member |-> pjm, disqualifiedMembers |-> <<>>,
                   err |-> "could not recover symmetric key [" \o keyError \o "]"]
             ELSE IF sharesError # NoError
             THEN [member |-> pjm, disqualifiedMembers |-> <<>>,
                   err |-> "could not decrypt share S [" \o sharesError \o "]"]
             ELSE IF isShareValidAgainstPublicKeySharePoints(
                        a.accuserID, shares.shareS, pointsOf(pjm, a.accusedID))
             THEN resolvePointsFrom(pjm, accusations, n + 1,
                        Append(disqualifiedMembers, a.accuserID))
             ELSE resolvePointsFrom(pjm, accusations, n + 1,
                        Append(disqualifiedMembers, a.accusedID))

\* ResolvePublicKeySharePointsAccusationsMessages: the outcomes of a call
\* (the IDs it returns and its error), one for each order in which the
\* accused of the messages can be visited.
ResolvePublicKeySharePointsAccusationsMessages(pjm, messages) ==
    {resolvePointsFrom(pjm, accusations, 1, <<>>) :
        accusations \in accusationsOf(messages)}

\* ------------------------------------------------------------------------
\* Phase 11: reconstruction of a disqualified member's individual keys
\* ------------------------------------------------------------------------

RECURSIVE lagrangeFrom(_, _, _)
lagrangeFrom(memberID, rest, coefficient) ==
    IF rest = {} THEN coefficient
    ELSE LET otherID == MinOf(rest)
             quotient == (otherID * ModInverse(otherID - memberID, Q)) % Q
         IN  lagrangeFrom(memberID, rest \ {otherID},
                IF otherID # memberID
                THEN (coefficient * quotient) % Q
                ELSE coefficient)

\* A slip in the denominator: k - l instead of l - k.
calculateLagrangeCoefficientSwapped(memberID, groupMembersIDs) ==
    LET flip(l) == (l * ModInverse(memberID - l, Q)) % Q
        F[S \in SUBSET groupMembersIDs] ==
            IF S = {} THEN 1
            ELSE LET l == MinOf(S)
                 IN  IF l # memberID THEN (F[S \ {l}] * flip(l)) % Q
                     ELSE F[S \ {l}]
    IN  F[groupMembersIDs]

\* calculateLagrangeCoefficient: a_mk = prod l / (l - k) mod q over the
\* IDs l # k of the members who provided shares.
calculateLagrangeCoefficient(memberID, groupMembersIDs) ==
    lagrangeFrom(memberID, groupMembersIDs, 1)

RECURSIVE reconstructFrom(_, _, _)
reconstructFrom(peerSharesS, rest, individualPrivateKey) ==
    IF rest = {} THEN individualPrivateKey
    ELSE LET peerID == MinOf(rest)
             lagrangeCoefficient ==
                 calculateLagrangeCoefficient(peerID, DOMAIN peerSharesS)
         IN  reconstructFrom(peerSharesS, rest \ {peerID},
                (individualPrivateKey
                    + peerSharesS[peerID] * lagrangeCoefficient) % Q)

\* A slip in the loop: a disqualified member nobody revealed a share of is
\* passed over.
RECURSIVE reconstructAllRevealed(_, _, _)
reconstructAllRevealed(revealedDisqualifiedShares, n, keys) ==
    IF n > Len(revealedDisqualifiedShares) THEN keys
    ELSE LET ds == revealedDisqualifiedShares[n]
             z  == reconstructFrom(ds.peerSharesS, DOMAIN ds.peerSharesS, 0)
             m  == ds.disqualifiedMemberID
         IN  reconstructAllRevealed(revealedDisqualifiedShares, n + 1,
                IF DOMAIN ds.peerSharesS = {} THEN keys
                ELSE [x \in (DOMAIN keys) \cup {m} |->
                        IF x = m THEN z ELSE keys[x]])

\* The map a list of DisqualifiedShares leaves behind: a later entry for
\* the same disqualified member overwrites an earlier one.
RECURSIVE reconstructAll(_, _, _)
reconstructAll(revealedDisqualifiedShares, n, keys) ==
    IF n > Len(revealedDisqualifiedShares) THEN keys
    ELSE LET ds == revealedDisqualifiedShares[n]
             z  == reconstructFrom(ds.peerSharesS, DOMAIN ds.peerSharesS, 0)
             m  == ds.disqualifiedMemberID
         IN  reconstructAll(revealedDisqualifiedShares, n + 1,
                [x \in (DOMAIN keys) \cup {m} |->
                    IF x = m THEN z ELSE keys[x]])

\* ReconstructIndividualPrivateKeys: z_m = sum of s_mk * a_mk mod q.
ReconstructIndividualPrivateKeys(revealedDisqualifiedShares) ==
    reconstructAll(revealedDisqualifiedShares, 1, << >>)

\* ReconstructIndividualPublicKeys: y_m = g^z_m mod p.
ReconstructIndividualPublicKeys(reconstructedIndividualPrivateKeys) ==
    [m \in DOMAIN reconstructedIndividualPrivateKeys |->
        Exp(G, reconstructedIndividualPrivateKeys[m], P)]

\* ------------------------------------------------------------------------
\* Phase 12: CombineGroupPublicKey
\* ------------------------------------------------------------------------

\* individualPublicKey: A_i0, this member's first public key share point.
individualPublicKey(rm) == rm.publicKeySharePoints[1]

\* receivedValidPeerIndividualPublicKeys: A_j0 of every peer whose public
\* key share points this member recorded as valid.
receivedValidPeerIndividualPublicKeys(rm) ==
    [j \in DOMAIN rm.receivedValidPeerPublicKeySharePoints |->
        rm.receivedValidPeerPublicKeySharePoints[j][1]]

RECURSIVE productModP(_, _, _)
productModP(keys, rest, product) ==
    IF rest = {} THEN product
    ELSE LET j == MinOf(rest)
         IN  productModP(keys, rest \ {j}, (product * keys[j]) % P)

\* A slip in the first line: the product starts from 1 instead of from
\* the member's own individual public key.
CombineGroupPublicKeyWithoutOwn(rm) ==
    LET peers == receivedValidPeerIndividualPublicKeys(rm)
        withPeers == productModP(peers, DOMAIN peers, 1)
    IN  [rm EXCEPT !.groupPublicKey =
            productModP(rm.reconstructedIndividualPublicKeys,
                        DOMAIN rm.reconstructedIndividualPublicKeys, withPeers)]

\* CombineGroupPublicKey: Y = the product of the individual public keys.
CombineGroupPublicKey(rm) ==
    LET peers == receivedValidPeerIndividualPublicKeys(rm)
        own == individualPublicKey(rm)
        withPeers == productModP(peers, DOMAIN peers, own)
    IN  [rm EXCEPT !.groupPublicKey =
            productModP(rm.reconstructedIndividualPublicKeys,
                        DOMAIN rm.reconstructedIndividualPublicKeys, withPeers)]

\* ------------------------------------------------------------------------
\* Share verification applied on its own: a dealer draws two polynomials,
\* commits to them, and a receiver checks a share pair against the
\* commitments.
\* ------------------------------------------------------------------------

VSSInit ==
    /\ group = [groupSize |-> MaxID, dishonestThreshold |-> 0, memberIDs |-> <<>>]
    /\ members = << >>
    /\ net = << >>
    /\ faults = 0
    /\ probe = [pc |-> "start"]

\* The dealer's half of Phase 3.
VSSCommit ==
    /\ probe.pc = "start"
    /\ \E t \in 1 .. MaxDegree :
       \E a \in generatePolynomial(t, RandomQ), b \in generatePolynomial(t, RandomQ) :
            probe' = [pc |-> "committed", degree |-> t,
                      coefficientsA |-> a, coefficientsB |-> b,
                      commitments |-> calculateCommitments(a, b)]
    /\ UNCHANGED <<group, members, net, faults>>

\* The receiver's check of the share pair the dealer computed for it.
VSSVerifyHonest ==
    /\ probe.pc = "committed"
    /\ \E j \in 1 .. MaxID :
        LET s == evaluateMemberShare(j, probe.coefficientsA)
            t == evaluateMemberShare(j, probe.coefficientsB)
        IN  probe' = [probe EXCEPT !.pc = "verified"] @@
                     [receiver |-> j, shareS |-> s, shareT |-> t,
                      honestS |-> s, honestT |-> t,
                      valid |-> areSharesValidAgainstCommitments(
                                    s, t, probe.commitments, j)]
    /\ UNCHANGED <<group, members, net, faults>>

\* The receiver's check of a pair in which one of the two shares was replaced.
VSSVerifyTampered ==
    /\ probe.pc = "committed"
    /\ \E j \in 1 .. MaxID, x \in Zq, which \in {"S", "T"} :
        LET s == evaluateMemberShare(j, probe.coefficientsA)
            t == evaluateMemberShare(j, probe.coefficientsB)
            s2 == IF which = "S" THEN x ELSE s
            t2 == IF which = "T" THEN x ELSE t
        IN  /\ <<s2, t2>> # <<s, t>>
            /\ probe' = [probe EXCEPT !.pc = "verified"] @@
                     [receiver |-> j, shareS |-> s2, shareT |-> t2,
                      honestS |-> s, honestT |-> t,
                      valid |-> areSharesValidAgainstCommitments(
                                    s2, t2, probe.commitments, j)]
    /\ UNCHANGED <<group, members, net, faults>>

VSSNext == VSSCommit \/ VSSVerifyHonest \/ VSSVerifyTampered

SpecVSS == VSSInit /\ [][VSSNext]_vars

\* C6: for coefficients generated by Phase 3 and every receiver ID, the
\* honestly computed shares s = f_a(j) mod Q, t = f_b(j) mod Q pass
\* areSharesValidAgainstCommitments against C[k] = G^a_k * H^b_k mod P.
C6_HonestSharesValid ==
    (probe.pc = "verified"
        /\ probe.shareS = probe.honestS /\ probe.shareT = probe.honestT)
    => probe.valid

C6_Witness ==
    /\ probe.pc = "verified"
    /\ probe.shareS = probe.honestS /\ probe.shareT = probe.honestT
    /\ probe.receiver = 3
    /\ probe.coefficientsA = <<2, 4>> /\ probe.coefficientsB = <<3, 1>>
    /\ probe.valid

\* C7: replacing s alone, or t alone, by any other value of Z_q makes
\* areSharesValidAgainstCommitments return false.
C7_TamperedShareRejected ==
    (probe.pc = "verified"
        /\ <<probe.shareS, probe.shareT>> # <<probe.honestS, probe.honestT>>)
    => ~probe.valid

C7_Witness ==
    /\ probe.pc = "verified"
    /\ probe.shareT # probe.honestT
    /\ probe.shareS = probe.honestS
    /\ ~probe.valid

\* ------------------------------------------------------------------------
\* Reconstruction applied on its own: a member m draws a polynomial, a set
\* of peers reveals the shares m computed for them, and a member
\* reconstructs m's individual keys from them.
\* ------------------------------------------------------------------------

ReconInit ==
    /\ group = [groupSize |-> MaxID, dishonestThreshold |-> 0, memberIDs |-> <<>>]
    /\ members = << >>
    /\ net = << >>
    /\ faults = 0
    /\ probe = [pc |-> "start"]

ReconDeal ==
    /\ probe.pc = "start"
    /\ \E t \in 1 .. MaxDegree, m \in 1 .. MaxID :
       \E a \in generatePolynomial(t, RandomQ) :
            probe' = [pc |-> "dealt", degree |-> t, disqualified |-> m,
                      secretCoefficients |-> a,
                      publicKeySharePoints |-> CalculatePublicKeySharePoints(a)]
    /\ UNCHANGED <<group, members, net, faults>>

\* Phase 10: the peers in K reveal the shares s_mk.
ReconReveal ==
    /\ probe.pc = "dealt"
    /\ \E K \in SUBSET ((1 .. MaxID) \ {probe.disqualified}) :
        probe' = [probe EXCEPT !.pc = "revealed"] @@
            [revealed |-> <<[disqualifiedMemberID |-> probe.disqualified,
                             peerSharesS |-> [k \in K |->
                                evaluateMemberShare(k, probe.secretCoefficients)]]>>]
    /\ UNCHANGED <<group, members, net, faults>>

ReconPrivate ==
    /\ probe.pc = "revealed"
    /\ probe' = [probe EXCEPT !.pc = "private"] @@
            [reconstructedIndividualPrivateKeys |->
                ReconstructIndividualPrivateKeys(probe.revealed)]
    /\ UNCHANGED <<group, members, net, faults>>

ReconPublic ==
    /\ probe.pc = "private"
    /\ probe' = [probe EXCEPT !.pc = "public"] @@
            [reconstructedIndividualPublicKeys |->
                ReconstructIndividualPublicKeys(
                    probe.reconstructedIndividualPrivateKeys)]
    /\ UNCHANGED <<group, members, net, faults>>

ReconNext == ReconDeal \/ ReconReveal \/ ReconPrivate \/ ReconPublic

SpecRecon == ReconInit /\ [][ReconNext]_vars

\* C10: from more than t revealed shares s_mk = f_m(k) mod Q of distinct
\* peers, ReconstructIndividualPrivateKeys stores z_m = a_0 and
\* ReconstructIndividualPublicKeys stores y_m = G^z_m mod P = A_m[0], also
\* when differences l - k of peer IDs are negative.
C10_ReconstructionExact ==
    (probe.pc = "public"
        /\ Cardinality(DOMAIN probe.revealed[1].peerSharesS) > probe.degree)
    => /\ probe.reconstructedIndividualPrivateKeys[probe.disqualified]
            = probe.secretCoefficients[1]
       /\ probe.reconstructedIndividualPublicKeys[probe.disqualified]
            = probe.publicKeySharePoints[1]

C10_Witness ==
    /\ probe.pc = "public"
    /\ probe.disqualified = 2
    /\ DOMAIN probe.revealed[1].peerSharesS = {1, 3, 4}
    /\ probe.secretCoefficients = <<3, 2>>
    /\ probe.reconstructedIndividualPrivateKeys[2] = 3
    /\ probe.reconstructedIndividualPublicKeys[2] = Exp(G, 3, P)

\* C22: when no more than t peers reveal a share of the disqualified member
\* m, ReconstructIndividualPrivateKeys, which returns nothing, still stores
\* a value of [0, q) for m, the value 0 when nobody revealed, and
\* ReconstructIndividualPublicKeys stores g to that value as y_m.
C22_MissingQuorumIsSilent ==
    (probe.pc \in {"private", "public"}
        /\ Cardinality(DOMAIN probe.revealed[1].peerSharesS) <= probe.degree)
    => /\ Has(probe.reconstructedIndividualPrivateKeys, probe.disqualified)
       /\ probe.reconstructedIndividualPrivateKeys[probe.disqualified] \in Zq
       /\ DOMAIN probe.revealed[1].peerSharesS = {}
            => probe.reconstructedIndividualPrivateKeys[probe.disqualified] = 0
       /\ probe.pc = "public"
            => /\ Has(probe.reconstructedIndividualPublicKeys, probe.disqualified)
               /\ probe.reconstructedIndividualPublicKeys[probe.disqualified]
                    = Exp(G, probe.reconstructedIndividualPrivateKeys[
                                probe.disqualified], P)

\* Nobody revealed a share of m: 0 is stored as z_m and 1 as y_m, neither
\* of them m's individual key.
C22_Witness ==
    /\ probe.pc = "public"
    /\ DOMAIN probe.revealed[1].peerSharesS = {}
    /\ probe.reconstructedIndividualPrivateKeys[probe.disqualified] = 0
    /\ probe.reconstructedIndividualPublicKeys[probe.disqualified] = 1
    /\ probe.secretCoefficients[1] # 0
    /\ probe.publicKeySharePoints[1] # 1

\* ------------------------------------------------------------------------
\* A run of the protocol by a group: every member calls the phase functions
\* in order, a phase after every running member finished the one before it
\* (the phase windows of the block counter).  Broadcasts go to net, and a
\* phase function is given the messages of the previous phase in ascending
\* order of their senders.
\* ------------------------------------------------------------------------

\* The group of the runs in which every member follows the protocol.
HonestGroupSize == 3

\* The group of the runs with a byzantine member, the last one.
GroupSize == HonestGroupSize + 1

DishonestThreshold == 1

NewGroup(n) ==
    [groupSize |-> n, dishonestThreshold |-> DishonestThreshold,
     memberIDs |-> [k \in 1 .. n |-> k]]

\* The IDs Group.MemberIDs returns, as a set.
IDs == {group.memberIDs[k] : k \in DOMAIN group.memberIDs}

EmptyNet ==
    [ephemeral |-> EmptyMap, shares |-> EmptyMap, commitments |-> EmptyMap,
     withheld |-> {}, sharesAccusations |-> EmptyMap, points |-> EmptyMap,
     pointsAccusations |-> EmptyMap, revealed |-> EmptyMap]

Running(i) == members[i].err = NoError

\* Member i can take step k: it finished step k-1 and so did every other
\* running member.  A step reads the member's own state and the messages
\* of earlier steps only, so the steps of one phase commute; the members
\* take them in ascending order of their IDs.
CanRun(i, k) ==
    /\ Running(i)
    /\ members[i].pc = k - 1
    /\ \A j \in IDs : Running(j) => members[j].pc >= k - 1
    /\ \A j \in IDs : (Running(j) /\ j < i) => members[j].pc >= k

\* The messages of one type that member i is given: those of the other
\* senders, in ascending order of the sender.
Inbox(messages, i) ==
    LET senders == SeqOfSet((DOMAIN messages) \ {i})
    IN  [k \in 1 .. Len(senders) |-> messages[senders[k]]]

\* The commitments messages member i is given: the byzantine member's
\* message does not reach the members it is withheld from.
CommitmentsInbox(i) ==
    LET from == IF i \in net.withheld
                THEN (DOMAIN net.commitments) \ {i, group.groupSize}
                ELSE (DOMAIN net.commitments) \ {i}
        senders == SeqOfSet(from)
    IN  [k \in 1 .. Len(senders) |-> net.commitments[senders[k]]]

Finish(member, k) == [member EXCEPT !.pc = k]

Abort(member, err) == [member EXCEPT !.err = err]

HonestInit ==
    /\ group = NewGroup(HonestGroupSize)
    /\ members = [i \in 1 .. HonestGroupSize |-> NewMember(i)]
    /\ net = EmptyNet
    /\ faults = 0
    /\ probe = NoProbe

DKGInit ==
    /\ group = NewGroup(GroupSize)
    /\ members = [i \in 1 .. GroupSize |-> NewMember(i)]
    /\ net = EmptyNet
    /\ faults = 0
    /\ probe = NoProbe

Phase1 ==
    \E i \in IDs :
        /\ CanRun(i, 1)
        /\ LET r == GenerateEphemeralKeyPair(members[i], group.memberIDs)
           IN  /\ members' = [members EXCEPT ![i] = Finish(r.member, 1)]
               /\ net' = [net EXCEPT !.ephemeral = Put(@, i, r.message)]
        /\ UNCHANGED <<group, faults, probe>>

Phase2 ==
    \E i \in IDs :
        /\ CanRun(i, 2)
        /\ LET r == GenerateSymmetricKeys(members[i], Inbox(net.ephemeral, i))
           IN  members' = [members EXCEPT ![i] =
                    IF r.err = NoError THEN Finish(r, 2) ELSE r]
        /\ UNCHANGED <<group, net, faults, probe>>

Phase3 ==
    \E i \in IDs :
        /\ CanRun(i, 3)
        /\ \E a \in generatePolynomial(group.dishonestThreshold, 1 .. MaxCoefA),
              b \in generatePolynomial(group.dishonestThreshold, 1 .. MaxCoefB) :
            LET r == CalculateMembersSharesAndCommitments(
                        members[i], group.memberIDs, a, b)
            IN  IF r.member.err # NoError
                THEN /\ members' = [members EXCEPT ![i] = r.member]
                     /\ net' = net
                ELSE /\ members' = [members EXCEPT ![i] = Finish(r.member, 3)]
                     /\ net' = [net EXCEPT
                            !.shares = Put(@, i, r.sharesMessage),
                            !.commitments = Put(@, i, r.commitmentsMessage)]
        /\ UNCHANGED <<group, faults, probe>>

\* The shares messages a member receives go to its evidence log.
RECURSIVE logSharesFrom(_, _, _)
logSharesFrom(member, sharesMessages, n) ==
    IF n > Len(sharesMessages) THEN member
    ELSE logSharesFrom(
            [member EXCEPT !.evidenceLog = PutPeerSharesMessage(@, sharesMessages[n])],
            sharesMessages, n + 1)

Phase4 ==
    \E i \in IDs :
        /\ CanRun(i, 4)
        /\ LET sharesMessages == Inbox(net.shares, i)
               r == VerifyReceivedSharesAndCommitmentsMessages(
                        logSharesFrom(members[i], sharesMessages, 1),
                        sharesMessages, CommitmentsInbox(i))
           IN  IF r.err # NoError
               THEN /\ members' = [members EXCEPT ![i] = Abort(r.member, r.err)]
                    /\ net' = net
               ELSE /\ members' = [members EXCEPT ![i] = Finish(r.member, 4)]
                    /\ net' = [net EXCEPT !.sharesAccusations = Put(@, i, r.message)]
        /\ UNCHANGED <<group, faults, probe>>

Phase5 ==
    \E i \in IDs :
        /\ CanRun(i, 5)
        /\ \E r \in ResolveSecretSharesAccusationsMessages(
                        members[i], Inbox(net.sharesAccusations, i)) :
               members' = [members EXCEPT ![i] =
                    Finish([@ EXCEPT !.disqualifiedPhase5 = r.disqualifiedMembers,
                                     !.errPhase5 = r.err], 5)]
        /\ UNCHANGED <<group, net, faults, probe>>

Phase6 ==
    \E i \in IDs :
        /\ CanRun(i, 6)
        /\ members' = [members EXCEPT ![i] = Finish(CombineMemberShares(@), 6)]
        /\ UNCHANGED <<group, net, faults, probe>>

Phase7 ==
    \E i \in IDs :
        /\ CanRun(i, 7)
        /\ LET points == CalculatePublicKeySharePoints(members[i].secretCoefficients)
           IN  /\ members' = [members EXCEPT ![i] =
                        Finish([@ EXCEPT !.publicKeySharePoints = points], 7)]
               /\ net' = [net EXCEPT !.points =
                        Put(@, i, [senderID |-> i, publicKeySharePoints |-> points])]
        /\ UNCHANGED <<group, faults, probe>>

Phase8 ==
    \E i \in IDs :
        /\ CanRun(i, 8)
        /\ LET r == VerifyPublicKeySharePoints(members[i], Inbox(net.points, i))
           IN  IF r.err # NoError
               THEN /\ members' = [members EXCEPT ![i] = Abort(r.member, r.err)]
                    /\ net' = net
               ELSE /\ members' = [members EXCEPT ![i] = Finish(r.member, 8)]
                    /\ net' = [net EXCEPT !.pointsAccusations = Put(@, i, r.message)]
        /\ UNCHANGED <<group, faults, probe>>

Phase9 ==
    \E i \in IDs :
        /\ CanRun(i, 9)
        /\ \E r \in ResolvePublicKeySharePointsAccusationsMessages(
                        members[i], Inbox(net.pointsAccusations, i)) :
               members' = [members EXCEPT ![i] =
                    Finish([@ EXCEPT !.disqualifiedPhase9 = r.disqualifiedMembers,
                                     !.errPhase9 = r.err], 9)]
        /\ UNCHANGED <<group, net, faults, probe>>

\* The set of the IDs of a list.
Range(seq) == {seq[k] : k \in 1 .. Len(seq)}

\* Phase 10: a member reveals the shares it holds of the members its
\* Phase 9 resolution returned.
Phase10 ==
    \E i \in IDs :
        /\ CanRun(i, 10)
        /\ LET of == Range(members[i].disqualifiedPhase9)
                        \cap DOMAIN members[i].receivedValidSharesS
           IN  net' = [net EXCEPT !.revealed =
                    Put(@, i, [m \in of |-> members[i].receivedValidSharesS[m]])]
        /\ members' = [members EXCEPT ![i] = Finish(@, 10)]
        /\ UNCHANGED <<group, faults, probe>>

\* The DisqualifiedShares a member puts together for the members its
\* Phase 9 resolution returned, from the shares revealed in Phase 10.
RevealedDisqualifiedShares(i) ==
    LET of == SeqOfSet(Range(members[i].disqualifiedPhase9))
    IN  [n \in 1 .. Len(of) |->
            [disqualifiedMemberID |-> of[n],
             peerSharesS |->
                [k \in {x \in DOMAIN net.revealed : Has(net.revealed[x], of[n])}
                    |-> net.revealed[k][of[n]]]]]

Phase11Private ==
    \E i \in IDs :
        /\ CanRun(i, 11)
        /\ members' = [members EXCEPT ![i] =
                Finish([@ EXCEPT !.reconstructedIndividualPrivateKeys =
                    ReconstructIndividualPrivateKeys(RevealedDisqualifiedShares(i))],
                    11)]
        /\ UNCHANGED <<group, net, faults, probe>>

Phase11Public ==
    \E i \in IDs :
        /\ CanRun(i, 12)
        /\ members' = [members EXCEPT ![i] =
                Finish([@ EXCEPT !.reconstructedIndividualPublicKeys =
                    ReconstructIndividualPublicKeys(
                        members[i].reconstructedIndividualPrivateKeys)], 12)]
        /\ UNCHANGED <<group, net, faults, probe>>

Phase12 ==
    \E i \in IDs :
        /\ CanRun(i, 13)
        /\ members' = [members EXCEPT ![i] = Finish(CombineGroupPublicKey(@), 13)]
        /\ UNCHANGED <<group, net, faults, probe>>

HonestNext ==
    \/ Phase1 \/ Phase2 \/ Phase3 \/ Phase4 \/ Phase5 \/ Phase6 \/ Phase7
    \/ Phase8 \/ Phase9 \/ Phase10 \/ Phase11Private \/ Phase11Public \/ Phase12

SpecHonest == HonestInit /\ [][HonestNext]_vars

\* The value at 0, modulo Q, of the polynomial of lowest degree through
\* the points (i, shares[i]): Lagrange interpolation.
InterpolateAtZero(shares) ==
    LET S == DOMAIN shares
        lambda(i) ==
            LET F[T \in SUBSET (S \ {i})] ==
                    IF T = {} THEN 1
                    ELSE LET l == MinOf(T)
                         IN  (F[T \ {l}] * l * ModInverse(l - i, Q)) % Q
            IN  F[S \ {i}]
        Sum[T \in SUBSET S] ==
            IF T = {} THEN 0
            ELSE LET i == MinOf(T)
                 IN  (Sum[T \ {i}] + shares[i] * lambda(i)) % Q
    IN  Sum[S]

AllDone == \A i \in IDs : members[i].pc = 13

\* The master private key shares x_i of the members of S.
MasterShares(S) == [i \in S |-> members[i].masterPrivateKeyShare]

\* C1: in a run where all members follow the protocol through Phases 1-12,
\* every member's CombineGroupPublicKey produces the same group public key.
C1_SameGroupPublicKey ==
    \A i \in IDs, j \in IDs :
        (members[i].pc = 13 /\ members[j].pc = 13)
            => members[i].groupPublicKey = members[j].groupPublicKey

C1_Witness ==
    /\ AllDone
    /\ members[1].secretCoefficients = <<1, 2>>
    /\ members[2].secretCoefficients = <<2, 2>>
    /\ members[3].secretCoefficients = <<1, 1>>
    /\ members[1].groupPublicKey = Exp(G, 4, P)
    /\ members[3].groupPublicKey = Exp(G, 4, P)

\* C2: in an all-honest run, for every set S of more than t members,
\* Lagrange interpolation at 0 (mod Q) of their master private key shares
\* gives the same x, and G^x mod P is the group public key.
C2_SharesInterpolateToGroupKey ==
    AllDone =>
        \A S \in SUBSET IDs :
            Cardinality(S) > group.dishonestThreshold =>
                /\ InterpolateAtZero(MasterShares(S)) = InterpolateAtZero(MasterShares(IDs))
                /\ Exp(G, InterpolateAtZero(MasterShares(S)), P)
                        = members[1].groupPublicKey

C2_Witness ==
    /\ AllDone
    /\ members[1].secretCoefficients = <<2, 1>>
    /\ members[2].secretCoefficients = <<2, 2>>
    /\ members[3].secretCoefficients = <<1, 2>>
    /\ InterpolateAtZero(MasterShares({2, 3})) = 0
    /\ InterpolateAtZero(MasterShares({1, 3})) = 0
    /\ members[2].groupPublicKey = 1

\* ------------------------------------------------------------------------
\* A run with a byzantine member.  The last member of the group runs the
\* phase functions like the others, and deviates up to MaxFaults times by
\* changing what it broadcast before the others read it.
\* ------------------------------------------------------------------------

Byzantine == group.groupSize

Honest == IDs \ {Byzantine}

\* Every member finished step k and none went further.
AllAt(k) == \A j \in IDs : members[j].pc = k

\* The elements of the order-q subgroup of Z*_p.
Subgroup == {Exp(G, e, P) : e \in Zq}

\* After Phase 3 the byzantine member replaces the share pair it sent to
\* member i: by (0, 0), or by (s + 1, t).
ByzTamperShares ==
    /\ faults < MaxFaults
    /\ AllAt(3)
    /\ \E i \in Honest, how \in {"zero", "inc"} :
        LET old == net.shares[Byzantine].shares[i]
            new == IF how = "zero"
                   THEN [old EXCEPT !.shareS = 0, !.shareT = 0]
                   ELSE [old EXCEPT !.shareS = (old.shareS + 1) % Q]
        IN  /\ new # old
            /\ net' = [net EXCEPT !.shares[Byzantine].shares[i] = new]
    /\ faults' = faults + 1
    /\ UNCHANGED <<group, members, probe>>

\* After Phase 3 the byzantine member keeps its commitments message from
\* member i.
ByzWithholdCommitments ==
    /\ faults < MaxFaults
    /\ AllAt(3)
    /\ \E i \in Honest \ net.withheld :
        net' = [net EXCEPT !.withheld = @ \cup {i}]
    /\ faults' = faults + 1
    /\ UNCHANGED <<group, members, probe>>

\* After Phase 7 the byzantine member replaces its public key share
\* points: A_0 is multiplied by x0 and the other points by x1.
ByzCraftPoints ==
    /\ faults < MaxFaults
    /\ AllAt(7)
    /\ \E x0 \in Subgroup, x1 \in {1, G} :
        LET old == net.points[Byzantine].publicKeySharePoints
            new == [k \in 1 .. Len(old) |->
                        (old[k] * (IF k = 1 THEN x0 ELSE x1)) % P]
        IN  /\ new # old
            /\ net' = [net EXCEPT !.points[Byzantine].publicKeySharePoints = new]
    /\ faults' = faults + 1
    /\ UNCHANGED <<group, members, probe>>

DKGNext ==
    \/ Phase1 \/ Phase2 \/ Phase3 \/ Phase4 \/ Phase5 \/ Phase6 \/ Phase7
    \/ Phase8 \/ Phase9 \/ Phase10 \/ Phase11Private \/ Phase11Public \/ Phase12
    \/ ByzTamperShares \/ ByzWithholdCommitments \/ ByzCraftPoints

SpecDKG == DKGInit /\ [][DKGNext]_vars

\* ------------------------------------------------------------------------
\* Accusation resolution and what follows it, in the runs with a byzantine
\* member
\* ------------------------------------------------------------------------

\* Member j takes no part in any accusation of the given messages.
NonParty(j, messages) ==
    \A k \in DOMAIN messages :
        /\ (k = j => messages[k].accusedMembersKeys = EmptyMap)
        /\ j \notin DOMAIN messages[k].accusedMembersKeys

\* The evidence logs of two members hold the same messages of every third
\* member.
SameEvidence(j1, j2) ==
    \A k \in IDs \ {j1, j2} :
        /\ Has(members[j1].evidenceLog.ephemeral, k)
                <=> Has(members[j2].evidenceLog.ephemeral, k)
        /\ Has(members[j1].evidenceLog.ephemeral, k) =>
                members[j1].evidenceLog.ephemeral[k]
                    = members[j2].evidenceLog.ephemeral[k]
        /\ Has(members[j1].evidenceLog.shares, k)
                <=> Has(members[j2].evidenceLog.shares, k)
        /\ Has(members[j1].evidenceLog.shares, k) =>
                members[j1].evidenceLog.shares[k]
                    = members[j2].evidenceLog.shares[k]

\* C3: two honest judges, neither a party to any accusation, that hold
\* identical evidence logs and receive the same accusation messages return
\* the same set of disqualified member IDs from Phase 5 resolution, and
\* likewise from Phase 9 resolution.
C3_JudgesAgree ==
    \A j1 \in Honest, j2 \in Honest :
        /\ (/\ members[j1].pc >= 5 /\ members[j2].pc >= 5
            /\ NonParty(j1, net.sharesAccusations)
            /\ NonParty(j2, net.sharesAccusations)
            /\ SameEvidence(j1, j2)
            /\ accusationsOf(Inbox(net.sharesAccusations, j1))
                    = accusationsOf(Inbox(net.sharesAccusations, j2)))
           => /\ Range(members[j1].disqualifiedPhase5)
                    = Range(members[j2].disqualifiedPhase5)
              /\ members[j1].errPhase5 = members[j2].errPhase5
        /\ (/\ members[j1].pc >= 9 /\ members[j2].pc >= 9
            /\ NonParty(j1, net.pointsAccusations)
            /\ NonParty(j2, net.pointsAccusations)
            /\ SameEvidence(j1, j2)
            /\ accusationsOf(Inbox(net.pointsAccusations, j1))
                    = accusationsOf(Inbox(net.pointsAccusations, j2)))
           => /\ Range(members[j1].disqualifiedPhase9)
                    = Range(members[j2].disqualifiedPhase9)
              /\ members[j1].errPhase9 = members[j2].errPhase9

\* The verdict the claim describes for the accusation a, judged from the
\* evidence log of member j and the commitments the accused broadcast.
VerdictOnBroadcastCommitments(j, a) ==
    LET shares == recoverShares(members[j].evidenceLog, a.accusedID, a.accuserID)
    IN  IF areSharesValidAgainstCommitments(shares.shareS, shares.shareT,
            net.commitments[a.accusedID].commitments, a.accuserID)
        THEN a.accuserID
        ELSE a.accusedID

\* C4: for each Phase-5 accusation (accuser, accused) not involving the
\* judge, the judge checks the shares recovered from the accused's recorded
\* shares message against the commitments the accused broadcast in Phase 3:
\* if the check passes the accuser is returned, otherwise the accused.
C4_VerdictAgainstBroadcastCommitments ==
    \A j \in Honest :
        (members[j].pc >= 5 /\ members[j].errPhase5 = NoError) =>
            \E accusations \in accusationsOf(Inbox(net.sharesAccusations, j)) :
                /\ Len(members[j].disqualifiedPhase5) = Len(accusations)
                /\ \A n \in 1 .. Len(accusations) :
                    members[j].disqualifiedPhase5[n]
                        = VerdictOnBroadcastCommitments(j, accusations[n])

\* A map without the entries of the given keys.
Without(map, keys) == [x \in (DOMAIN map) \ keys |-> map[x]]

\* C8: the master private key share sums s_ii and the shares of exactly
\* those peers that are still qualified after Phase 5; the share of a member
\* that Phase 5 resolution returned does not enter it (likewise for x'_i).
C8_OnlyQualifiedSharesCombined ==
    \A i \in Honest :
        (members[i].pc >= 6 /\ members[i].errPhase5 = NoError) =>
            LET out == Range(members[i].disqualifiedPhase5)
                s == Without(members[i].receivedValidSharesS, out)
                t == Without(members[i].receivedValidSharesT, out)
            IN  /\ members[i].masterPrivateKeyShare
                    = sumModQ(s, DOMAIN s, members[i].selfSecretShareS)
                /\ members[i].shareT
                    = sumModQ(t, DOMAIN t, members[i].selfSecretShareT)

\* The peers that revealed a share of member m.
RevealedFor(m) == {k \in DOMAIN net.revealed : Has(net.revealed[k], m)}

\* C9: when a member m passes Phases 4-6, is disqualified in Phase 9 and
\* its key is reconstructed in Phase 11 from more than t revealed shares,
\* the group public key of a remaining honest member is the product of its
\* own key, the keys A_j[0] of the other peers, and G^z_m for m's true z_m,
\* this last factor exactly once.
C9_ReconstructedKeyEntersOnce ==
    \A i \in Honest, m \in IDs :
        (/\ m # i
         /\ members[i].pc = 13
         /\ members[i].errPhase9 = NoError
         /\ Range(members[i].disqualifiedPhase9) = {m}
         /\ Has(members[i].receivedValidSharesS, m)
         /\ m \notin Range(members[i].disqualifiedPhase5)
         /\ Has(members[i].reconstructedIndividualPublicKeys, m)
         /\ Cardinality(RevealedFor(m)) > group.dishonestThreshold)
        => LET peers == Without(receivedValidPeerIndividualPublicKeys(members[i]), {m})
           IN  members[i].groupPublicKey
                = (productModP(peers, DOMAIN peers, individualPublicKey(members[i]))
                    * Exp(G, members[m].secretCoefficients[1], P)) % P

\* ------------------------------------------------------------------------
\* Phase 4 on the messages of arbitrary senders: a member that went through
\* Phases 1 and 2 is given the shares and commitments messages of its
\* peers, tampered with or not, and verifies them.
\* ------------------------------------------------------------------------

\* Member i of a group of n after Phases 1 and 2, given the ephemeral public
\* key messages of the senders K.
AfterKeyExchange(n, i, K) ==
    LET memberIDs == [k \in 1 .. n |-> k]
        e(k) == GenerateEphemeralKeyPair(NewMember(k), memberIDs)
        senders == SeqOfSet(K \ {i})
    IN  GenerateSymmetricKeys(e(i).member,
            [x \in 1 .. Len(senders) |-> e(senders[x]).message])

\* The shares message with the shares for the receiver shifted by ds and dt.
TamperedShares(sharesMessage, receiverID, ds, dt) ==
    [sharesMessage EXCEPT
        !.shares[receiverID].shareS = (@ + ds) % Q,
        !.shares[receiverID].shareT = (@ + dt) % Q]

\* The shares message with the shares for the receiver encrypted under a
\* key the receiver does not hold.
GarbledShares(sharesMessage, receiverID) ==
    [sharesMessage EXCEPT
        !.shares[receiverID].key =
            Ecdh(GenerateKeyPair(sharesMessage.senderID, sharesMessage.senderID).PrivateKey,
                 GenerateKeyPair(sharesMessage.senderID, sharesMessage.senderID).PublicKey)]

VerifyInit ==
    /\ group = NewGroup(HonestGroupSize)
    /\ members = [i \in 1 .. HonestGroupSize |->
                    AfterKeyExchange(HonestGroupSize, i, 1 .. HonestGroupSize)]
    /\ net = EmptyNet
    /\ faults = 0
    /\ \E self \in 1 .. HonestGroupSize,
          K \in {1 .. HonestGroupSize, 1 .. (HonestGroupSize - 1)} :
            probe = [pc |-> "receiving",
                     cvm |-> AfterKeyExchange(HonestGroupSize, self, K),
                     last |-> 0,
                     sharesMessages |-> <<>>,
                     commitmentsMessages |-> <<>>]

\* The next sender, in ascending order of the IDs, runs Phase 3; its shares
\* for the verifying member are shifted by ds and dt on the way (0, 0: as
\* computed), and its messages arrive both, or one of them only, or both
\* with the shares for the verifying member encrypted under another key.
VerifyDeliver ==
    /\ probe.pc = "receiving"
    /\ \E j \in IDs \ {probe.cvm.ID} :
        /\ j > probe.last
        /\ \E a \in generatePolynomial(group.dishonestThreshold, 1 .. MaxCoefA),
              b \in generatePolynomial(group.dishonestThreshold, 1 .. MaxCoefB),
              d \in {<<0, 0>>, <<1, 0>>, <<Q - 1, 0>>, <<0, 1>>, <<0, Q - 1>>, <<1, 1>>},
              arrive \in {"both", "shares", "commitments", "garbled"} :
            LET r == CalculateMembersSharesAndCommitments(
                        members[j], group.memberIDs, a, b)
                sent == IF arrive = "garbled"
                        THEN GarbledShares(r.sharesMessage, probe.cvm.ID)
                        ELSE TamperedShares(r.sharesMessage, probe.cvm.ID, d[1], d[2])
            IN  /\ r.member.err = NoError
                /\ arrive # "both" => d = <<0, 0>>
                /\ probe' = [probe EXCEPT
                        !.last = j,
                        !.sharesMessages =
                            IF arrive = "commitments" THEN @ ELSE Append(@, sent),
                        !.commitmentsMessages =
                            IF arrive = "shares" THEN @
                            ELSE Append(@, r.commitmentsMessage)]
    /\ UNCHANGED <<group, members, net, faults>>

\* The verifying member calls VerifyReceivedSharesAndCommitmentsMessages.
VerifyCall ==
    /\ probe.pc = "receiving"
    /\ LET r == VerifyReceivedSharesAndCommitmentsMessages(
                    probe.cvm, probe.sharesMessages, probe.commitmentsMessages)
       IN  probe' = [pc |-> "verified",
                     before |-> probe.cvm,
                     cvm |-> r.member,
                     sharesMessages |-> probe.sharesMessages,
                     commitmentsMessages |-> probe.commitmentsMessages,
                     message |-> r.message,
                     err |-> r.err]
    /\ UNCHANGED <<group, members, net, faults>>

VerifyNext == VerifyDeliver \/ VerifyCall

SpecVerify == VerifyInit /\ [][VerifyNext]_vars

\* The senders of the given messages.
SendersOf(messages) == {messages[n].senderID : n \in DOMAIN messages}

\* The message of the given sender.
MessageOf(messages, senderID) ==
    messages[CHOOSE n \in DOMAIN messages : messages[n].senderID = senderID]

\* The accused of the accusation message the call returned; none if it
\* returned no message.
AccusedIn(message) ==
    IF message = NoMessage THEN EmptyMap ELSE message.accusedMembersKeys

\* C5: for every sender j with a paired shares and commitments message and
\* an established symmetric key, Phase 4 does exactly one of two things:
\* it records s_ji, t_ji and C_j as valid, or it puts j into the accusation
\* message with the ephemeral private key this member generated for j;
\* the first when the commitment check on (s_ji, t_ji) passes, the second
\* when it fails.
C5_RecordOrAccuse ==
    probe.pc = "verified" =>
        \A j \in SendersOf(probe.sharesMessages)
                    \cap SendersOf(probe.commitmentsMessages) :
            LET shares == MessageOf(probe.sharesMessages, j)
                shareS == decryptShareS(shares, probe.cvm.ID)
                shareT == decryptShareT(shares, probe.cvm.ID)
                commitments == MessageOf(probe.commitmentsMessages, j).commitments
                accused == AccusedIn(probe.message)
                recorded ==
                    /\ Has(probe.cvm.receivedValidSharesS, j)
                    /\ Has(probe.cvm.receivedValidSharesT, j)
                    /\ Has(probe.cvm.receivedValidPeerCommitments, j)
                    /\ probe.cvm.receivedValidPeerCommitments[j] = commitments
                accusedWithKey ==
                    /\ Has(accused, j)
                    /\ accused[j] = probe.before.ephemeralKeyPairs[j].PrivateKey
                    /\ accused[j] = GenerateKeyPair(probe.cvm.ID, j).PrivateKey
            IN  Has(probe.before.symmetricKeys, j) =>
                    /\ recorded # accusedWithKey
                    /\ canDecrypt(shares, probe.cvm.ID, probe.before.symmetricKeys[j])
                        => IF areSharesValidAgainstCommitments(
                                    shareS, shareT, commitments, probe.cvm.ID)
                           THEN /\ recorded
                                /\ probe.cvm.receivedValidSharesS[j] = shareS
                                /\ probe.cvm.receivedValidSharesT[j] = shareT
                           ELSE accusedWithKey

\* ------------------------------------------------------------------------
\* Phase 9 verdicts in the runs with a byzantine member
\* ------------------------------------------------------------------------

\* The verdict the claim describes for the accusation a, judged from the
\* evidence log of member j and the points the accused broadcast.
VerdictOnBroadcastPoints(j, a) ==
    LET shares == recoverShares(members[j].evidenceLog, a.accusedID, a.accuserID)
    IN  IF isShareValidAgainstPublicKeySharePoints(a.accuserID, shares.shareS,
            net.points[a.accusedID].publicKeySharePoints)
        THEN a.accuserID
        ELSE a.accusedID

\* C11: for each Phase-9 accusation (accuser, accused) not involving the
\* judge, the judge checks the share recovered from the evidence log
\* against the points the accused broadcast in Phase 7: if the check passes
\* the accuser is returned, otherwise the accused.
C11_VerdictAgainstBroadcastPoints ==
    \A j \in Honest :
        (members[j].pc >= 9 /\ members[j].errPhase9 = NoError) =>
            \E accusations \in accusationsOf(Inbox(net.pointsAccusations, j)) :
                /\ Len(members[j].disqualifiedPhase9) = Len(accusations)
                /\ \A n \in 1 .. Len(accusations) :
                    members[j].disqualifiedPhase9[n]
                        = VerdictOnBroadcastPoints(j, accusations[n])

\* ------------------------------------------------------------------------
\* Phase 8 on the points of arbitrary senders: a member that holds the
\* valid shares of its peers is given their public key share points, as
\* computed or altered, and verifies them.
\* ------------------------------------------------------------------------

PointsInit ==
    /\ group = NewGroup(HonestGroupSize)
    /\ members = [i \in 1 .. HonestGroupSize |->
                    AfterKeyExchange(HonestGroupSize, i, 1 .. HonestGroupSize)]
    /\ net = EmptyNet
    /\ faults = 0
    /\ \E self \in 1 .. HonestGroupSize :
            probe = [pc |-> "receiving",
                     sm |-> members[self],
                     last |-> 0,
                     honest |-> {},
                     pointsMessages |-> <<>>]

\* The factors a sender may alter its points by: none, A_0 alone, A_1
\* alone, and both so that the product at the receiver stays the same.
Alterations(receiverID) ==
    {<<1, 1>>, <<G, 1>>, <<1, G>>, <<Exp(G, (Q - receiverID) % Q, P), G>>}

\* The next sender, in ascending order of the IDs, runs Phase 3 and the
\* member accepts its shares in Phase 4; the sender then runs Phase 7 and
\* its points arrive multiplied by the factors x.
PointsDeliver ==
    /\ probe.pc = "receiving"
    /\ \E j \in IDs \ {probe.sm.ID} :
        /\ j > probe.last
        /\ \E a \in generatePolynomial(group.dishonestThreshold, 1 .. MaxCoefA),
              b \in generatePolynomial(group.dishonestThreshold, 1 .. MaxCoefB),
              x \in Alterations(probe.sm.ID) :
            LET r == CalculateMembersSharesAndCommitments(
                        members[j], group.memberIDs, a, b)
                v == VerifyReceivedSharesAndCommitmentsMessages(
                        probe.sm, <<r.sharesMessage>>, <<r.commitmentsMessage>>)
                points == CalculatePublicKeySharePoints(r.member.secretCoefficients)
                sent == [k \in 1 .. Len(points) |-> (points[k] * x[k]) % P]
            IN  /\ r.member.err = NoError
                /\ v.err = NoError
                /\ probe' = [probe EXCEPT
                        !.sm = v.member,
                        !.last = j,
                        !.honest = IF sent = points THEN @ \cup {j} ELSE @,
                        !.pointsMessages = Append(@,
                            [senderID |-> j, publicKeySharePoints |-> sent])]
    /\ UNCHANGED <<group, members, net, faults>>

\* The member calls VerifyPublicKeySharePoints.
PointsCall ==
    /\ probe.pc = "receiving"
    /\ LET r == VerifyPublicKeySharePoints(probe.sm, probe.pointsMessages)
       IN  probe' = [pc |-> "verified",
                     before |-> probe.sm,
                     sm |-> r.member,
                     honest |-> probe.honest,
                     pointsMessages |-> probe.pointsMessages,
                     message |-> r.message,
                     err |-> r.err]
    /\ UNCHANGED <<group, members, net, faults>>

PointsNext == PointsDeliver \/ PointsCall

SpecPoints == PointsInit /\ [][PointsNext]_vars

\* C12: Phase 8 accuses sender j, with the ephemeral private key the member
\* generated for j, exactly when the product of A_j[k]^(self^k) differs
\* from G^s_ji, and otherwise records A_j as valid; points computed from
\* the coefficients behind the share s_ji are never accused.
C12_PointsRecordedOrAccused ==
    probe.pc = "verified" =>
        /\ probe.err = NoError
        /\ probe.message.senderID = probe.sm.ID
        /\ \A j \in SendersOf(probe.pointsMessages) :
            LET points == MessageOf(probe.pointsMessages, j).publicKeySharePoints
                accused == probe.message.accusedMembersKeys
                recorded == probe.sm.receivedValidPeerPublicKeySharePoints
            IN  /\ Has(accused, j) <=>
                        ~isShareValidAgainstPublicKeySharePoints(probe.sm.ID,
                            probe.before.receivedValidSharesS[j], points)
                /\ Has(accused, j) =>
                        /\ accused[j] = probe.before.ephemeralKeyPairs[j].PrivateKey
                        /\ ~Has(recorded, j)
                /\ ~Has(accused, j) => (Has(recorded, j) /\ recorded[j] = points)
                /\ j \in probe.honest => ~Has(accused, j)
        /\ DOMAIN probe.message.accusedMembersKeys \subseteq SendersOf(probe.pointsMessages)
        /\ DOMAIN probe.sm.receivedValidPeerPublicKeySharePoints
                \subseteq SendersOf(probe.pointsMessages)

\* One call in which the unaltered points of one sender are recorded and
\* the altered points of another are accused.
C12_Witness ==
    /\ probe.pc = "verified"
    /\ Len(probe.pointsMessages) = 2
    /\ Cardinality(probe.honest) = 1
    /\ probe.honest = DOMAIN probe.sm.receivedValidPeerPublicKeySharePoints
    /\ Cardinality(DOMAIN probe.message.accusedMembersKeys) = 1

\* ------------------------------------------------------------------------
\* Accusation resolution on arbitrary accusations: a judge that accepted
\* the shares, commitments and points of its peers in Phases 4 and 8 is
\* given accusation messages, each accusation with the accuser's real
\* ephemeral private key or with another one, and resolves them in Phase 5
\* and in Phase 9, visiting the messages and the accusations of a message
\* in any order.
\* ------------------------------------------------------------------------

\* The most accusations in the messages given to the judge.
MaxAccusations == 2

\* The polynomial dealer j uses: coefficient k is j + k (mod Q - 1), in
\* [1, Q - 1].
DealtCoefficients(j) ==
    [k \in 1 .. (DishonestThreshold + 1) |-> ((j + k - 2) % (Q - 1)) + 1]

\* The shares message in which the shares of every receiver but the judge
\* are s + 1 instead of s.
CheatedShares(sharesMessage, judgeID) ==
    [sharesMessage EXCEPT !.shares =
        [r \in DOMAIN @ |->
            IF r = judgeID THEN @[r]
            ELSE [@[r] EXCEPT !.shareS = (@ + 1) % Q]]]

ResolveInit ==
    /\ group = NewGroup(GroupSize)
    /\ members = [i \in 1 .. GroupSize |->
                    AfterKeyExchange(GroupSize, i, 1 .. GroupSize)]
    /\ net = EmptyNet
    /\ faults = 0
    /\ \E judge \in 1 .. GroupSize :
            probe = [pc |-> "dealing",
                     member |-> members[judge],
                     last |-> 0,
                     count |-> 0,
                     accusations |-> EmptyMap]

\* A further dealer, in ascending order of the IDs (a member passed over
\* sent nothing), runs Phases 3 and 7,
\* cheating the other receivers or not; the judge logs the shares message
\* and accepts shares, commitments and points in Phases 4 and 8.
ResolveDeal ==
    /\ probe.pc = "dealing"
    /\ \E j \in IDs \ {probe.member.ID}, cheat \in BOOLEAN :
        /\ j > probe.last
        /\ LET r == CalculateMembersSharesAndCommitments(members[j],
                        group.memberIDs, DealtCoefficients(j), DealtCoefficients(j + 1))
               sent == IF cheat
                       THEN CheatedShares(r.sharesMessage, probe.member.ID)
                       ELSE r.sharesMessage
               v == VerifyReceivedSharesAndCommitmentsMessages(
                        logSharesFrom(probe.member, <<sent>>, 1),
                        <<sent>>, <<r.commitmentsMessage>>)
               points == [senderID |-> j,
                          publicKeySharePoints |->
                            CalculatePublicKeySharePoints(r.member.secretCoefficients)]
               w == VerifyPublicKeySharePoints(v.member, <<points>>)
           IN  /\ r.member.err = NoError
               /\ v.err = NoError
               /\ w.err = NoError
               /\ probe' = [probe EXCEPT !.member = w.member, !.last = j]
    /\ UNCHANGED <<group, members, net, faults>>

\* The last member dealt or was passed over.
AllDealt ==
    probe.last = (IF probe.member.ID = GroupSize THEN GroupSize - 1 ELSE GroupSize)

\* One more accusation reaches the judge: the accuser reveals the private
\* key it generated for the accused, or one it generated for nobody.
ResolveAccuse ==
    /\ probe.pc = "dealing"
    /\ AllDealt
    /\ probe.count < MaxAccusations
    /\ \E accuserID \in IDs, accusedID \in IDs, real \in BOOLEAN :
        /\ accuserID # accusedID
        /\ ~(Has(probe.accusations, accuserID)
                /\ Has(probe.accusations[accuserID], accusedID))
        /\ LET key == IF real
                      THEN GenerateKeyPair(accuserID, accusedID).PrivateKey
                      ELSE GenerateKeyPair(accuserID, accuserID).PrivateKey
               old == IF Has(probe.accusations, accuserID)
                      THEN probe.accusations[accuserID]
                      ELSE EmptyMap
           IN  probe' = [probe EXCEPT
                    !.count = @ + 1,
                    !.accusations = Put(@, accuserID, Put(old, accusedID, key))]
    /\ UNCHANGED <<group, members, net, faults>>

\* The accusation messages of the accusers, in the given order.
MessagesIn(accusations, p) ==
    [k \in 1 .. Len(p) |->
        [senderID |-> p[k], accusedMembersKeys |-> accusations[p[k]]]]

\* Every order in which the two loops can visit the accusations, the
\* messages being given in any order.
VisitOrders(accusations) ==
    UNION {accusationsOf(MessagesIn(accusations, p)) :
            p \in Perms(DOMAIN accusations)}

\* The accusation messages, in ascending order of their senders.
AccusationMessages(accusations) ==
    MessagesIn(accusations, SeqOfSet(DOMAIN accusations))

\* The accusations in ascending order of the accusers and, for one accuser,
\* of the accused.
AscendingOrder(accusations) ==
    CHOOSE order \in accusationsOf(AccusationMessages(accusations)) :
        \A m \in DOMAIN order, n \in DOMAIN order :
            (m < n /\ order[m].accuserID = order[n].accuserID)
                => order[m].accusedID < order[n].accusedID

\* The judge resolves the accusations as secret shares accusations, the
\* loops visiting them in some order; the result in ascending order is
\* kept next to it.
ResolveShares ==
    /\ probe.pc = "dealing"
    /\ AllDealt
    /\ \E order \in VisitOrders(probe.accusations) :
        probe' = [pc |-> "resolved",
                  phase |-> 5,
                  before |-> probe.member,
                  accusations |-> probe.accusations,
                  order |-> order,
                  result |-> resolveSharesFrom(probe.member, order, 1, <<>>),
                  ascending |-> resolveSharesFrom(probe.member,
                        AscendingOrder(probe.accusations), 1, <<>>)]
    /\ UNCHANGED <<group, members, net, faults>>

\* The judge resolves the accusations as points accusations.
ResolvePoints ==
    /\ probe.pc = "dealing"
    /\ AllDealt
    /\ \E order \in VisitOrders(probe.accusations) :
        probe' = [pc |-> "resolved",
                  phase |-> 9,
                  before |-> probe.member,
                  accusations |-> probe.accusations,
                  order |-> order,
                  result |-> resolvePointsFrom(probe.member, order, 1, <<>>),
                  ascending |-> resolvePointsFrom(probe.member,
                        AscendingOrder(probe.accusations), 1, <<>>)]
    /\ UNCHANGED <<group, members, net, faults>>

ResolveNext == ResolveDeal \/ ResolveAccuse \/ ResolveShares \/ ResolvePoints

SpecResolve == ResolveInit /\ [][ResolveNext]_vars

\* The judge is neither the accuser nor the accused of an accusation given
\* to it.
ThirdParty ==
    \A a \in Range(probe.order) :
        probe.before.ID # a.accuserID /\ probe.before.ID # a.accusedID

\* The revealed key is the private half of the public key the accuser
\* broadcast for the accused in Phase 1.
RevealsBroadcastKey(a) ==
    [of |-> a.revealedAccuserPrivateKey]
        = probe.before.evidenceLog.ephemeral[a.accuserID].ephemeralPublicKeys[a.accusedID]

\* The judge logged the shares message of every peer and accepted the
\* shares, commitments and points of every peer.
EveryPeerDealt ==
    \A j \in IDs \ {probe.before.ID} :
        /\ Has(probe.before.evidenceLog.shares, j)
        /\ Has(probe.before.receivedValidPeerCommitments, j)
        /\ Has(probe.before.receivedValidPeerPublicKeySharePoints, j)

\* C13: when the private key revealed by accuser alpha against beta is not
\* the private half of the ephemeral public key alpha broadcast for beta in
\* Phase 1, a third-party judge's resolution (Phase 5 or Phase 9) returns a
\* list of disqualified members that contains alpha.
C13_WrongKeyDisqualifiesAccuser ==
    (probe.pc = "resolved" /\ ThirdParty /\ EveryPeerDealt)
        => \A a \in Range(probe.order) :
                ~RevealsBroadcastKey(a)
                    => a.accuserID \in Range(probe.result.disqualifiedMembers)

\* C14: when the judging member is the accuser or the accused of any
\* accusation in the input, both resolution functions return an error and
\* no list of disqualified members, and the member, its evidence log
\* included, is as it was before the call.
C14_SelfInDisputeIsAnError ==
    (probe.pc = "resolved" /\ ~ThirdParty)
        => /\ probe.result.err # NoError
           /\ probe.result.disqualifiedMembers = <<>>
           /\ probe.result.member = probe.before
           /\ probe.result.member.evidenceLog = probe.before.evidenceLog

\* The judge is a party of the last accusation visited, after an accusation
\* between two other members that is resolved without an error.
C14_Witness ==
    /\ probe.pc = "resolved"
    /\ Len(probe.order) = 2
    /\ probe.before.ID \notin {probe.order[1].accuserID, probe.order[1].accusedID}
    /\ RevealsBroadcastKey(probe.order[1])
    /\ probe.before.ID = probe.order[2].accusedID
    /\ probe.result.err # NoError
    /\ probe.phase = 9

\* C18: whatever the order in which the accusation messages and the
\* accusations inside a message are visited, Phase 5 and Phase 9 resolution
\* return the same set of disqualified IDs as in ascending order, or return
\* an error in both orders.
C18_ResolutionIsOrderIndependent ==
    probe.pc = "resolved"
        => \/ /\ probe.result.err # NoError
              /\ probe.ascending.err # NoError
           \/ /\ probe.result.err = NoError
              /\ probe.ascending.err = NoError
              /\ Range(probe.result.disqualifiedMembers)
                    = Range(probe.ascending.disqualifiedMembers)

\* Two accusations visited in descending order, one unfounded and one
\* founded, both resolved in Phase 5: an accuser and an accused are
\* disqualified.
C18_Witness ==
    /\ probe.pc = "resolved"
    /\ probe.phase = 5
    /\ Len(probe.order) = 2
    /\ probe.order[1].accuserID > probe.order[2].accuserID
    /\ probe.result.err = NoError
    /\ probe.order[1].accuserID \in Range(probe.result.disqualifiedMembers)
    /\ probe.order[2].accusedID \in Range(probe.result.disqualifiedMembers)
    /\ probe.result.disqualifiedMembers # probe.ascending.disqualifiedMembers

\* ------------------------------------------------------------------------
\* Phase 4 on messages that cannot be decrypted or have no counterpart
\* ------------------------------------------------------------------------

\* The senders whose share for the verifying member cannot be decrypted
\* with the symmetric key the member holds for them.
Undecryptable ==
    {j \in SendersOf(probe.sharesMessages) :
        /\ Has(probe.before.symmetricKeys, j)
        /\ ~canDecrypt(MessageOf(probe.sharesMessages, j), probe.before.ID,
                       probe.before.symmetricKeys[j])}

\* C15: when the share a sender addressed to this member cannot be
\* decrypted, the call completes without an error and the sender is in the
\* returned accusation message.
C15_UndecryptableShareIsAccused ==
    probe.pc = "verified" =>
        \A j \in Undecryptable \cap SendersOf(probe.commitmentsMessages) :
            /\ probe.err = NoError
            /\ probe.message # NoMessage
            /\ Has(probe.message.accusedMembersKeys, j)

\* The senders of a shares message that sent no commitments message.
SharesOnly ==
    SendersOf(probe.sharesMessages) \ SendersOf(probe.commitmentsMessages)

\* The result of the call had sender j sent nothing.
VerifyWithout(j) ==
    VerifyReceivedSharesAndCommitmentsMessages(probe.before,
        SelectSeq(probe.sharesMessages, LAMBDA m : m.senderID # j),
        SelectSeq(probe.commitmentsMessages, LAMBDA m : m.senderID # j))

\* C16: when a sender sent a shares message and no commitments message,
\* the call does not return what it returns had the sender sent nothing:
\* the member after the call, the accusation message or the error differ.
C16_UnpairedSharesAreReported ==
    probe.pc = "verified" =>
        \A j \in SharesOnly :
            [member |-> probe.cvm, message |-> probe.message, err |-> probe.err]
                # VerifyWithout(j)

\* The senders of a commitments message that sent no shares message.
CommitmentsOnly ==
    SendersOf(probe.commitmentsMessages) \ SendersOf(probe.sharesMessages)

NoSharesMessageFrom(j) == "cannot find shares message from member " \o ToString(j)

\* C17 as stated: for every commitments message without a shares message
\* of its sender j, the call returns the error that names j and no
\* accusation message.
C17_EveryUnmatchedSenderNamed ==
    probe.pc = "verified" =>
        \A j \in CommitmentsOnly :
            /\ probe.err = NoSharesMessageFrom(j)
            /\ probe.message = NoMessage

\* The commitments messages before the first one of sender j are handled
\* without an error: each has a shares message of its sender, a symmetric
\* key for the sender and a share that decrypts.
HandledBefore(j) ==
    \A n \in DOMAIN probe.commitmentsMessages :
        (\A k \in 1 .. n : probe.commitmentsMessages[k].senderID # j)
            => LET x == probe.commitmentsMessages[n].senderID
               IN  /\ x \in SendersOf(probe.sharesMessages)
                   /\ Has(probe.before.symmetricKeys, x)
                   /\ x \notin Undecryptable

\* C17: when some commitments message has no shares message of its sender,
\* the call returns an error and no accusation message; the error names
\* the sender j of such a message when every commitments message before it
\* is handled without an error.
C17_FirstUnmatchedSenderNamed ==
    (probe.pc = "verified" /\ CommitmentsOnly # {}) =>
        /\ probe.err # NoError
        /\ probe.message = NoMessage
        /\ \A j \in CommitmentsOnly :
                HandledBefore(j) => probe.err = NoSharesMessageFrom(j)

\* A sender's shares were accepted and recorded before the commitments
\* message of the next sender, which has no shares message, ends the call.
C17_Witness ==
    /\ probe.pc = "verified"
    /\ Len(probe.commitmentsMessages) = 2
    /\ Len(probe.sharesMessages) = 1
    /\ probe.sharesMessages[1].senderID = probe.commitmentsMessages[1].senderID
    /\ Has(probe.cvm.receivedValidSharesS, probe.commitmentsMessages[1].senderID)
    /\ probe.err = NoSharesMessageFrom(probe.commitmentsMessages[2].senderID)
    /\ probe.message = NoMessage

\* ------------------------------------------------------------------------
\* Phases 6 and 12 on arbitrary inputs and in every iteration order: a
\* member holding shares of some of its peers combines them, and a member
\* holding individual public keys of some of its peers, received or
\* reconstructed, combines them; the loops over the maps visit the entries
\* in any order.
\* ------------------------------------------------------------------------

\* A slip in the loop body: the sum is not reduced.
RECURSIVE sumWithoutMod(_, _, _, _)
sumWithoutMod(shares, order, n, combined) ==
    IF n > Len(order) THEN combined
    ELSE sumWithoutMod(shares, order, n + 1, combined + shares[order[n]])

\* The loop of CombineMemberShares over the entries of a map, visited in
\* the given order, from entry n on.
RECURSIVE sumModQIn(_, _, _, _)
sumModQIn(shares, order, n, combined) ==
    IF n > Len(order) THEN combined
    ELSE sumModQIn(shares, order, n + 1, (combined + shares[order[n]]) % Q)

\* CombineMemberShares, its two loops visiting the maps in the given orders.
CombineMemberSharesIn(qm, orderS, orderT) ==
    [qm EXCEPT
        !.masterPrivateKeyShare =
            sumModQIn(qm.receivedValidSharesS, orderS, 1, qm.selfSecretShareS),
        !.shareT =
            sumModQIn(qm.receivedValidSharesT, orderT, 1, qm.selfSecretShareT)]

\* The loops of CombineGroupPublicKey over the entries of a map, visited
\* in the given order, from entry n on.
RECURSIVE productModPIn(_, _, _, _)
productModPIn(keys, order, n, product) ==
    IF n > Len(order) THEN product
    ELSE productModPIn(keys, order, n + 1, (product * keys[order[n]]) % P)

\* A slip: the loop over the reconstructed keys is left out.
CombineGroupPublicKeyWithoutReconstructed(rm, orderPeers, orderReconstructed) ==
    [rm EXCEPT !.groupPublicKey =
        productModPIn(receivedValidPeerIndividualPublicKeys(rm), orderPeers, 1,
                      individualPublicKey(rm))]

\* CombineGroupPublicKey, its two loops visiting the maps in the given
\* orders.
CombineGroupPublicKeyIn(rm, orderPeers, orderReconstructed) ==
    [rm EXCEPT !.groupPublicKey =
        productModPIn(rm.reconstructedIndividualPublicKeys, orderReconstructed, 1,
            productModPIn(receivedValidPeerIndividualPublicKeys(rm), orderPeers, 1,
                          individualPublicKey(rm)))]

\* The shares a member is given: s is 0, 1 or q - 1, t is 0 or q - 1.
GivenShares == {0, 1, Q - 1} \X {0, Q - 1}

\* The individual public keys a member is given: g^0, g^1, g^2 mod p.
GivenKeys == {Exp(G, 0, P), Exp(G, 1, P), Exp(G, 2, P)}

\* The first or the last member of the group, with its own shares, before
\* Phase 6, or before Phase 8: with the ephemeral key pairs of Phase 1, its
\* own public key share points, and the share S, 0 or 1, it recorded in
\* Phase 4 for every peer or for every peer but the last one.
CombineInit ==
    /\ group = NewGroup(GroupSize)
    /\ members = [i \in 1 .. GroupSize |-> NewMember(i)]
    /\ net = EmptyNet
    /\ faults = 0
    /\ \E self \in {1, GroupSize} :
        \/ \E own \in GivenShares :
            probe = [pc |-> "sharing",
                     last |-> 0,
                     member |-> [NewMember(self) EXCEPT
                                    !.selfSecretShareS = own[1],
                                    !.selfSecretShareT = own[2]]]
        \/ \E own \in GivenKeys, unheard \in SUBSET {GroupSize - 1} :
            \E shares \in [(1 .. GroupSize) \ ({self} \cup unheard) -> {0, 1}] :
                probe = [pc |-> "publishing",
                         last |-> 0,
                         message |-> NoMessage,
                         member |->
                            [GenerateEphemeralKeyPair(
                                    NewMember(self), NewGroup(GroupSize).memberIDs).member
                                EXCEPT !.receivedValidSharesS = shares,
                                       !.publicKeySharePoints = <<own, G>>]]

\* The commitments a peer can have broadcast: C_0 any element of the
\* subgroup, C_1 either 1 or g.
GivenCommitments == {<<c0, c1>> : c0 \in Subgroup, c1 \in {1, G}}

\* The member records the shares of a further peer as valid, and with them
\* the commitments they are valid against, as Phase 4 does.
CombineReceiveShares ==
    /\ probe.pc = "sharing"
    /\ \E j \in IDs \ {probe.member.ID}, received \in GivenShares,
          commitments \in GivenCommitments :
        /\ j > probe.last
        /\ areSharesValidAgainstCommitments(
                received[1], received[2], commitments, probe.member.ID)
        /\ probe' = [probe EXCEPT
                !.last = j,
                !.member.receivedValidSharesS = Put(@, j, received[1]),
                !.member.receivedValidSharesT = Put(@, j, received[2]),
                !.member.receivedValidPeerCommitments = Put(@, j, commitments)]
    /\ UNCHANGED <<group, members, net, faults>>

\* Phase 8 on the points message of a further peer, A_0 any element of
\* the subgroup and A_1 either 1 or g: the member records the points if
\* they are valid against the share S of the peer and accuses the peer if
\* they are not; without a share S of the peer the call panics.
CombineReceiveKey ==
    /\ probe.pc = "publishing"
    /\ \E j \in IDs \ {probe.member.ID}, points \in Subgroup \X {1, G} :
        /\ j > probe.last
        /\ LET r == VerifyPublicKeySharePoints(probe.member,
                        <<[senderID |-> j, publicKeySharePoints |-> points]>>)
           IN  probe' = [probe EXCEPT
                    !.pc = IF r.err = NoError THEN @ ELSE r.err,
                    !.last = j,
                    !.message = r.message,
                    !.member = r.member]
    /\ UNCHANGED <<group, members, net, faults>>

\* Phase 11: the member holds the reconstructed individual private keys, 1
\* or 2, of some peers and makes the map of their public keys anew.
CombineReconstruct ==
    /\ probe.pc = "publishing"
    /\ \E disqualified \in SUBSET (IDs \ {probe.member.ID}) :
        \E keys \in [disqualified -> {1, 2}] :
            /\ keys # probe.member.reconstructedIndividualPrivateKeys
            /\ probe' = [probe EXCEPT
                    !.member.reconstructedIndividualPrivateKeys = keys,
                    !.member.reconstructedIndividualPublicKeys =
                        ReconstructIndividualPublicKeys(keys)]
    /\ UNCHANGED <<group, members, net, faults>>

\* The member calls CombineMemberShares; the loops visit the maps in some
\* orders.
CombineShares ==
    /\ probe.pc = "sharing"
    /\ \E orderS \in Perms(DOMAIN probe.member.receivedValidSharesS),
          orderT \in Perms(DOMAIN probe.member.receivedValidSharesT) :
        probe' = [pc |-> "shared",
                  before |-> probe.member,
                  orders |-> <<orderS, orderT>>,
                  member |-> CombineMemberSharesIn(probe.member, orderS, orderT),
                  ascending |-> CombineMemberShares(probe.member)]
    /\ UNCHANGED <<group, members, net, faults>>

\* The member calls CombineGroupPublicKey; the loops visit the maps in
\* some orders.
CombineKeys ==
    /\ probe.pc = "publishing"
    /\ \E orderPeers \in
                Perms(DOMAIN probe.member.receivedValidPeerPublicKeySharePoints),
          orderReconstructed \in
                Perms(DOMAIN probe.member.reconstructedIndividualPublicKeys) :
        probe' = [pc |-> "published",
                  before |-> probe.member,
                  orders |-> <<orderPeers, orderReconstructed>>,
                  member |-> CombineGroupPublicKeyIn(
                                probe.member, orderPeers, orderReconstructed),
                  ascending |-> CombineGroupPublicKey(probe.member)]
    /\ UNCHANGED <<group, members, net, faults>>

CombineNext ==
    \/ CombineReceiveShares
    \/ CombineReceiveKey
    \/ CombineReconstruct
    \/ CombineShares
    \/ CombineKeys

SpecCombine == CombineInit /\ [][CombineNext]_vars

\* The sum of the values of a map.
RECURSIVE SumOf(_)
SumOf(map) ==
    IF DOMAIN map = {} THEN 0
    ELSE LET j == CHOOSE x \in DOMAIN map : TRUE
         IN  map[j] + SumOf([x \in (DOMAIN map) \ {j} |-> map[x]])

\* The product of the values of a map.
RECURSIVE ProductOf(_)
ProductOf(map) ==
    IF DOMAIN map = {} THEN 1
    ELSE LET j == CHOOSE x \in DOMAIN map : TRUE
         IN  map[j] * ProductOf([x \in (DOMAIN map) \ {j} |-> map[x]])

\* C19: after CombineMemberShares the master private key share is
\* (s_ii + the sum of every entry of receivedValidSharesS) mod q and shareT
\* is (t_ii + the sum of every entry of receivedValidSharesT) mod q, both in
\* [0, q), whatever the order in which the maps are visited.
C19_CombinedSharesAreTheSumModQ ==
    probe.pc = "shared" =>
        /\ probe.member.masterPrivateKeyShare =
                (probe.before.selfSecretShareS
                    + SumOf(probe.before.receivedValidSharesS)) % Q
        /\ probe.member.shareT =
                (probe.before.selfSecretShareT
                    + SumOf(probe.before.receivedValidSharesT)) % Q
        /\ probe.member.masterPrivateKeyShare \in 0 .. (Q - 1)
        /\ probe.member.shareT \in 0 .. (Q - 1)
        /\ probe.member = probe.ascending

\* The shares of three peers visited in an order that is not ascending,
\* the sum of the s shares exceeding q.
C19_Witness ==
    /\ probe.pc = "shared"
    /\ Len(probe.orders[1]) = GroupSize - 1
    /\ probe.orders[1][1] > probe.orders[1][2]
    /\ probe.orders[1] # probe.orders[2]
    /\ probe.before.selfSecretShareS
            + SumOf(probe.before.receivedValidSharesS) > Q
    /\ probe.member.masterPrivateKeyShare # 0

\* C20: after CombineGroupPublicKey the group public key is the member's
\* own individual public key times A_j[0] of every peer with valid points
\* times y_m of every reconstructed member, mod p, whatever the order in
\* which the two collections are visited.
C20_GroupKeyIsTheProductModP ==
    probe.pc = "published" =>
        /\ probe.member.groupPublicKey =
                (probe.before.publicKeySharePoints[1]
                    * ProductOf([j \in DOMAIN
                            probe.before.receivedValidPeerPublicKeySharePoints |->
                            probe.before.receivedValidPeerPublicKeySharePoints[j][1]])
                    * ProductOf(probe.before.reconstructedIndividualPublicKeys)) % P
        /\ probe.member = probe.ascending

\* Two peers with valid points visited in descending order and one
\* reconstructed member, none of the keys being 1, the product exceeding p.
C20_Witness ==
    /\ probe.pc = "published"
    /\ Len(probe.orders[1]) = 2
    /\ probe.orders[1][1] > probe.orders[1][2]
    /\ Len(probe.orders[2]) = 1
    /\ probe.before.publicKeySharePoints[1] # 1
    /\ \A j \in DOMAIN probe.before.receivedValidPeerPublicKeySharePoints :
            probe.before.receivedValidPeerPublicKeySharePoints[j][1] # 1
    /\ \A m \in DOMAIN probe.before.reconstructedIndividualPublicKeys :
            probe.before.reconstructedIndividualPublicKeys[m] # 1
    /\ probe.member.groupPublicKey # 1

\* ------------------------------------------------------------------------
\* A run in which the last member goes silent: it takes part in Phases 1
\* and 2 and broadcasts nothing from Phase 3 on, while the other members
\* follow the protocol to the end.
\* ------------------------------------------------------------------------

\* The last member stops when its turn in Phase 3 comes.
GoSilent ==
    /\ CanRun(Byzantine, 3)
    /\ members' = [members EXCEPT ![Byzantine] = Abort(@, "inactive")]
    /\ UNCHANGED <<group, net, faults, probe>>

\* Phase 3 of the members that stay: member i draws any polynomial a and
\* the hiding polynomial DealtCoefficients(i).
Phase3OfTheOthers ==
    \E i \in Honest :
        /\ CanRun(i, 3)
        /\ \E a \in generatePolynomial(group.dishonestThreshold, 1 .. MaxCoefA) :
            LET r == CalculateMembersSharesAndCommitments(
                        members[i], group.memberIDs, a, DealtCoefficients(i))
            IN  /\ r.member.err = NoError
                /\ members' = [members EXCEPT ![i] = Finish(r.member, 3)]
                /\ net' = [net EXCEPT
                        !.shares = Put(@, i, r.sharesMessage),
                        !.commitments = Put(@, i, r.commitmentsMessage)]
        /\ UNCHANGED <<group, faults, probe>>

SilentNext ==
    \/ Phase1 \/ Phase2 \/ Phase3OfTheOthers \/ GoSilent \/ Phase4 \/ Phase5
    \/ Phase6 \/ Phase7 \/ Phase8 \/ Phase9 \/ Phase10 \/ Phase11Private
    \/ Phase11Public \/ Phase12

SpecSilent == DKGInit /\ [][SilentNext]_vars

\* The product, mod p, of the individual public keys g^(a_j0) of the
\* members of S.
RECURSIVE ContributionsOf(_)
ContributionsOf(S) ==
    IF S = {} THEN 1
    ELSE LET j == CHOOSE x \in S : TRUE
         IN  (Exp(G, members[j].secretCoefficients[1], P)
                * ContributionsOf(S \ {j})) % P

\* C21: when the last member broadcasts nothing from Phase 3 on, no list
\* returned by Phase 5 or Phase 9 of another member contains it, no phase
\* of another member ends with an error, the master private key share of
\* another member sums the shares of the members that stayed, and the group
\* public key of another member is the product of the individual public
\* keys of the members that stayed.
C21_SilentMemberIsLeftOut ==
    members[Byzantine].err = "inactive" =>
        \A i \in Honest :
            /\ members[i].err = NoError
            /\ members[i].errPhase5 = NoError
            /\ members[i].errPhase9 = NoError
            /\ Byzantine \notin Range(members[i].disqualifiedPhase5)
            /\ Byzantine \notin Range(members[i].disqualifiedPhase9)
            /\ members[i].pc >= 6 =>
                    members[i].masterPrivateKeyShare =
                        SumOf([j \in Honest |->
                            evaluateMemberShare(i, members[j].secretCoefficients)]) % Q
            /\ members[i].pc = 13 =>
                    members[i].groupPublicKey = ContributionsOf(Honest)

\* Every member that stayed finished Phase 12 with a group public key that
\* is not 1.
C21_Witness ==
    /\ members[Byzantine].err = "inactive"
    /\ members[Byzantine].pc = 2
    /\ \A i \in Honest : members[i].pc = 13 /\ members[i].groupPublicKey # 1

\* ------------------------------------------------------------------------
\* Phases 1 to 4 of one member on arbitrary Phase 1 messages: the member
\* generates its ephemeral key pairs, is given ephemeral public key
\* messages (of peers, of itself, of a sender outside the group, more than
\* one of the same sender), generates the symmetric keys, computes its
\* shares and commitments and verifies the shares and commitments of a
\* sender.  Nothing in the member keeps it from calling the next phase
\* function after one returned an error.
\* ------------------------------------------------------------------------

\* The most ephemeral public key messages given to GenerateSymmetricKeys.
MaxInbox == 3

\* An ID no member of the group has.
Outsider == group.groupSize + 1

\* The ephemeral public key message sender j broadcasts in Phase 1.
BroadcastKeys(j) ==
    GenerateEphemeralKeyPair(NewMember(j), group.memberIDs).message

\* Another ephemeral public key message of sender j: for every receiver the
\* public key of a pair that j generated for nobody.
OtherKeys(j) ==
    [BroadcastKeys(j) EXCEPT !.ephemeralPublicKeys =
        [r \in DOMAIN @ |-> GenerateKeyPair(j, j).PublicKey]]

KeysInit ==
    /\ group = NewGroup(HonestGroupSize)
    /\ members = [i \in 1 .. HonestGroupSize |->
                    AfterKeyExchange(HonestGroupSize, i, 1 .. HonestGroupSize)]
    /\ net = EmptyNet
    /\ faults = 0
    /\ \E self \in 1 .. HonestGroupSize :
            probe = [pc |-> "start", member |-> NewMember(self)]

\* Phase 1.
KeysGenerate ==
    /\ probe.pc = "start"
    /\ LET r == GenerateEphemeralKeyPair(probe.member, group.memberIDs)
       IN  probe' = [pc |-> "receiving",
                     member |-> r.member,
                     own |-> r.message,
                     inbox |-> <<>>]
    /\ UNCHANGED <<group, members, net, faults>>

\* One more ephemeral public key message reaches the member.
KeysReceive ==
    /\ probe.pc = "receiving"
    /\ Len(probe.inbox) < MaxInbox
    /\ \E j \in IDs \cup {Outsider}, broadcast \in BOOLEAN :
        probe' = [probe EXCEPT !.inbox =
                    Append(@, IF broadcast THEN BroadcastKeys(j) ELSE OtherKeys(j))]
    /\ UNCHANGED <<group, members, net, faults>>

\* Phase 2.
KeysExchange ==
    /\ probe.pc = "receiving"
    /\ probe' = [pc |-> "keyed",
                 before |-> probe.member,
                 member |-> GenerateSymmetricKeys(probe.member, probe.inbox),
                 own |-> probe.own,
                 inbox |-> probe.inbox]
    /\ UNCHANGED <<group, members, net, faults>>

\* Phase 3; the error kept with the member is the one of this call.
KeysDeal ==
    /\ probe.pc = "keyed"
    /\ \E a \in generatePolynomial(group.dishonestThreshold, 1 .. MaxCoefA),
          b \in generatePolynomial(group.dishonestThreshold, 1 .. MaxCoefB) :
        LET r == CalculateMembersSharesAndCommitments(
                    [probe.member EXCEPT !.err = NoError], group.memberIDs, a, b)
        IN  probe' = [pc |-> "dealt",
                      before |-> probe.member,
                      member |-> r.member,
                      coefficientsA |-> a,
                      coefficientsB |-> b,
                      sharesMessage |-> r.sharesMessage,
                      commitmentsMessage |-> r.commitmentsMessage]
    /\ UNCHANGED <<group, members, net, faults>>

\* Phase 4: the member is given the shares and commitments messages of a
\* peer, under the peer's ID or under the ID of a sender outside the group.
KeysVerify ==
    /\ probe.pc = "dealt"
    /\ \E j \in IDs \ {probe.member.ID}, outside \in BOOLEAN :
        LET senderID == IF outside THEN Outsider ELSE j
            r == CalculateMembersSharesAndCommitments(members[j],
                    group.memberIDs, DealtCoefficients(j), DealtCoefficients(j + 1))
            shares == [r.sharesMessage EXCEPT !.senderID = senderID]
            commitments == [r.commitmentsMessage EXCEPT !.senderID = senderID]
            v == VerifyReceivedSharesAndCommitmentsMessages(
                    logSharesFrom(probe.member, <<shares>>, 1),
                    <<shares>>, <<commitments>>)
        IN  probe' = [pc |-> "verified",
                      before |-> probe.member,
                      member |-> v.member,
                      senderID |-> senderID,
                      sharesMessage |-> shares,
                      commitmentsMessage |-> commitments,
                      message |-> v.message,
                      err |-> v.err]
    /\ UNCHANGED <<group, members, net, faults>>

\* Phases 7 and 8, after a Phase 4 that returned no error and accused
\* nobody: the member computes its public key share points and verifies
\* the points of the peer, whose A_0 is as computed or multiplied by g.
KeysPublish ==
    /\ probe.pc = "verified"
    /\ probe.err = NoError
    /\ Has(probe.member.receivedValidSharesS, probe.senderID)
    /\ \E x \in {1, G} :
        LET own == CalculatePublicKeySharePoints(probe.member.secretCoefficients)
            sm == [probe.member EXCEPT !.publicKeySharePoints = own]
            received ==
                [senderID |-> probe.senderID,
                 publicKeySharePoints |->
                    [CalculatePublicKeySharePoints(DealtCoefficients(probe.senderID))
                        EXCEPT ![1] = (@ * x) % P]]
            v == VerifyPublicKeySharePoints(sm, <<received>>)
        IN  probe' = [pc |-> "published",
                      before |-> sm,
                      member |-> v.member,
                      pointsMessage |->
                        [senderID |-> sm.ID, publicKeySharePoints |-> own],
                      received |-> received,
                      message |-> v.message,
                      err |-> v.err]
    /\ UNCHANGED <<group, members, net, faults>>

KeysNext ==
    \/ KeysGenerate \/ KeysReceive \/ KeysExchange \/ KeysDeal \/ KeysVerify
    \/ KeysPublish

SpecKeys == KeysInit /\ [][KeysNext]_vars

\* C25: GenerateEphemeralKeyPair stores a key pair for every group member
\* but the member itself, and the message it returns, sent under the
\* member's ID, holds for exactly these members the public key of the pair
\* stored for them.
C25_OnePairForEveryPeer ==
    probe.pc = "receiving" =>
        /\ DOMAIN probe.member.ephemeralKeyPairs = IDs \ {probe.member.ID}
        /\ probe.own.senderID = probe.member.ID
        /\ DOMAIN probe.own.ephemeralPublicKeys = IDs \ {probe.member.ID}
        /\ \A j \in IDs \ {probe.member.ID} :
                probe.own.ephemeralPublicKeys[j]
                    = probe.member.ephemeralKeyPairs[j].PublicKey

\* The second member of the group right after Phase 1, with pairs for the
\* first and the last member.
C25_Witness ==
    /\ probe.pc = "receiving"
    /\ probe.inbox = <<>>
    /\ probe.member.ID = 2
    /\ DOMAIN probe.own.ephemeralPublicKeys = {1, HonestGroupSize}

\* The senders of the messages given to GenerateSymmetricKeys for which the
\* member holds no ephemeral key pair.
WithoutPair ==
    {j \in SendersOf(probe.inbox) : ~Has(probe.before.ephemeralKeyPairs, j)}

\* C26: when a message given to GenerateSymmetricKeys comes from a sender
\* the member holds no ephemeral key pair for, the member itself included,
\* the call returns an error and no symmetric key is stored for that sender.
C26_NoPairIsAnError ==
    (probe.pc = "keyed" /\ WithoutPair # {}) =>
        /\ probe.member.err # NoError
        /\ \A j \in WithoutPair : ~Has(probe.member.symmetricKeys, j)

\* The message of a peer is followed by a message of the member itself: a
\* key is stored for the peer, then the call fails.
C26_Witness ==
    /\ probe.pc = "keyed"
    /\ Len(probe.inbox) = 2
    /\ probe.inbox[1].senderID # probe.member.ID
    /\ probe.inbox[2].senderID = probe.member.ID
    /\ Has(probe.member.symmetricKeys, probe.inbox[1].senderID)
    /\ probe.member.err # NoError

\* The index of the first message of sender j.
FirstOf(messages, j) ==
    CHOOSE n \in DOMAIN messages :
        /\ messages[n].senderID = j
        /\ \A k \in 1 .. (n - 1) : messages[k].senderID # j

\* C27: after the Phase 1 messages are recorded in the evidence log, the
\* lookup for a sender returns the first message of that sender, also when
\* more messages of the sender were recorded after it, and the public key
\* recoverSymmetricKey takes is the one of that first message.
C27_FirstRecordedMessageWins ==
    probe.pc = "keyed" =>
        \A j \in DOMAIN probe.member.evidenceLog.ephemeral :
            /\ j \in SendersOf(probe.inbox)
            /\ probe.member.evidenceLog.ephemeral[j]
                    = probe.inbox[FirstOf(probe.inbox, j)]
            /\ Has(probe.inbox[FirstOf(probe.inbox, j)].ephemeralPublicKeys,
                   probe.member.ID)
                => recoverSymmetricKey(probe.member.evidenceLog, j, probe.member.ID,
                        GenerateKeyPair(probe.member.ID, j).PrivateKey)
                    = Ecdh(GenerateKeyPair(probe.member.ID, j).PrivateKey,
                           probe.inbox[FirstOf(probe.inbox, j)]
                                .ephemeralPublicKeys[probe.member.ID])

\* Two different messages of the same peer were recorded, without an error.
C27_Witness ==
    /\ probe.pc = "keyed"
    /\ probe.member.err = NoError
    /\ Len(probe.inbox) >= 2
    /\ probe.inbox[1].senderID = probe.inbox[2].senderID
    /\ probe.inbox[1] # probe.inbox[2]
    /\ probe.member.evidenceLog.ephemeral[probe.inbox[1].senderID] = probe.inbox[1]

\* The value at x, mod q, of the polynomial with the given coefficients.
ValueAt(coefficients, x) ==
    SumOf([k \in DOMAIN coefficients |-> coefficients[k] * x ^ (k - 1)]) % Q

\* The other group members the member holds no symmetric key for.
WithoutKey ==
    {j \in IDs \ {probe.before.ID} : ~Has(probe.before.symmetricKeys, j)}

\* C24: CalculateMembersSharesAndCommitments returns an error and no
\* message when the member lacks the symmetric key of another group member;
\* otherwise the shares message holds, for every other group member j and
\* not for the member itself, the shares (f_a(j), f_b(j)) encrypted under
\* the symmetric key of j, the member keeps (f_a(i), f_b(i)) in its state,
\* and the commitments message holds the t+1 commitments
\* g^(a_k) * h^(b_k) mod p.
C24_SharesForEveryPeerAndCommitments ==
    probe.pc = "dealt" =>
        IF WithoutKey # {}
        THEN /\ probe.member.err # NoError
             /\ probe.sharesMessage = NoMessage
             /\ probe.commitmentsMessage = NoMessage
        ELSE /\ probe.member.err = NoError
             /\ probe.sharesMessage.senderID = probe.before.ID
             /\ DOMAIN probe.sharesMessage.shares = IDs \ {probe.before.ID}
             /\ \A j \in IDs \ {probe.before.ID} :
                    /\ canDecrypt(probe.sharesMessage, j, probe.before.symmetricKeys[j])
                    /\ decryptShareS(probe.sharesMessage, j)
                            = ValueAt(probe.coefficientsA, j)
                    /\ decryptShareT(probe.sharesMessage, j)
                            = ValueAt(probe.coefficientsB, j)
             /\ probe.member.selfSecretShareS
                    = ValueAt(probe.coefficientsA, probe.before.ID)
             /\ probe.member.selfSecretShareT
                    = ValueAt(probe.coefficientsB, probe.before.ID)
             /\ probe.commitmentsMessage.senderID = probe.before.ID
             /\ Len(probe.commitmentsMessage.commitments)
                    = group.dishonestThreshold + 1
             /\ \A k \in 1 .. (group.dishonestThreshold + 1) :
                    probe.commitmentsMessage.commitments[k]
                        = (G ^ probe.coefficientsA[k] * H ^ probe.coefficientsB[k]) % P

\* The second member holds the keys of both peers and deals with the
\* polynomial 1 + 2x.
C24_Witness ==
    /\ probe.pc = "dealt"
    /\ probe.before.ID = 2
    /\ probe.member.err = NoError
    /\ probe.coefficientsA = <<1, 2>>
    /\ DOMAIN probe.sharesMessage.shares = {1, HonestGroupSize}
    /\ probe.member.selfSecretShareS = 0

\* C29: Phase 4 returns the missing symmetric key error for a sender only
\* if the member's evidence log holds no Phase 1 ephemeral public key
\* message of that sender.
C29_MissingKeyMeansNoPhase1Message ==
    (probe.pc = "verified"
        /\ probe.err = "no symmetric key for sender " \o ToString(probe.senderID))
    => ~Has(probe.before.evidenceLog.ephemeral, probe.senderID)

\* What a shares message shows to a reader without a symmetric key: the
\* sender and, for every receiver, the key the shares are encrypted under.
PlainView(sharesMessage) ==
    [senderID |-> sharesMessage.senderID,
     shares |-> [r \in DOMAIN sharesMessage.shares |-> sharesMessage.shares[r].key]]

\* The member had it drawn a0 as its secret coefficient a_0.
WithSecret(member, a0) ==
    LET coefficients == [member.secretCoefficients EXCEPT ![1] = a0]
    IN  [member EXCEPT !.secretCoefficients = coefficients,
                       !.selfSecretShareS = ValueAt(coefficients, member.ID)]

\* C28: a_0 is in no message a phase function returns, but inside C[0] and
\* as A[0] = g^(a_0) mod p.  Stated on two executions: had the member drawn
\* another a_0, all else equal, the ephemeral public key message, what the
\* shares message shows without a key, the commitments C[1..t], the points
\* A[1..t] and the accusation messages of Phases 4 and 8 would be the same,
\* and C[0] and A[0] are the commitment to a_0 and g^(a_0).
C28_SecretLeavesOnlyCommitted ==
    /\ probe.pc = "dealt" /\ probe.member.err = NoError =>
        \A a0 \in RandomQ :
            LET other == CalculateMembersSharesAndCommitments(probe.before,
                            group.memberIDs,
                            [probe.coefficientsA EXCEPT ![1] = a0],
                            probe.coefficientsB)
            IN  /\ GenerateEphemeralKeyPair(
                        WithSecret([NewMember(probe.before.ID) EXCEPT
                            !.secretCoefficients = probe.coefficientsA], a0),
                        group.memberIDs).message
                        = BroadcastKeys(probe.before.ID)
                /\ PlainView(other.sharesMessage) = PlainView(probe.sharesMessage)
                /\ Len(other.commitmentsMessage.commitments)
                        = Len(probe.commitmentsMessage.commitments)
                /\ \A k \in 2 .. Len(probe.commitmentsMessage.commitments) :
                        other.commitmentsMessage.commitments[k]
                            = probe.commitmentsMessage.commitments[k]
                /\ probe.commitmentsMessage.commitments[1]
                        = CalculateCommitment(probe.coefficientsA[1],
                                              probe.coefficientsB[1], P)
    /\ probe.pc = "verified" =>
        \A a0 \in RandomQ :
            VerifyReceivedSharesAndCommitmentsMessages(
                logSharesFrom(WithSecret(probe.before, a0),
                              <<probe.sharesMessage>>, 1),
                <<probe.sharesMessage>>, <<probe.commitmentsMessage>>).message
                = probe.message
    /\ probe.pc = "published" =>
        \A a0 \in RandomQ :
            LET other == WithSecret(probe.before, a0)
                points == CalculatePublicKeySharePoints(other.secretCoefficients)
            IN  /\ Len(points) = Len(probe.pointsMessage.publicKeySharePoints)
                /\ \A k \in 2 .. Len(points) :
                        points[k] = probe.pointsMessage.publicKeySharePoints[k]
                /\ probe.pointsMessage.publicKeySharePoints[1]
                        = Exp(G, probe.before.secretCoefficients[1], P)
                /\ VerifyPublicKeySharePoints(
                        [other EXCEPT !.publicKeySharePoints = points],
                        <<probe.received>>).message
                        = probe.message

\* The member went through Phases 1 to 8 with a_0 = 2 and accused its peer
\* in Phase 8.
C28_Witness ==
    /\ probe.pc = "published"
    /\ probe.err = NoError
    /\ probe.before.secretCoefficients[1] = 2
    /\ probe.pointsMessage.publicKeySharePoints[1] = Exp(G, 2, P)
    /\ DOMAIN probe.message.accusedMembersKeys # {}

\* C23: after Phases 1 and 2, for two members i and j that each processed
\* the Phase 1 message of the other, the symmetric key i stores for j is the
\* ECDH of the private key i generated for j with the public key j
\* broadcast for i, and it equals the symmetric key j stores for i.
C23_SymmetricKeysAgree ==
    \A i \in DOMAIN members, j \in DOMAIN members :
        (i # j /\ members[i].pc >= 2 /\ members[j].pc >= 2) =>
            /\ Has(members[i].symmetricKeys, j)
            /\ Has(members[j].symmetricKeys, i)
            /\ members[i].symmetricKeys[j]
                    = Ecdh(members[i].ephemeralKeyPairs[j].PrivateKey,
                           net.ephemeral[j].ephemeralPublicKeys[i])
            /\ members[i].symmetricKeys[j] = members[j].symmetricKeys[i]

\* The first and the last member finished Phase 2.
C23_Witness ==
    /\ members[1].pc = 2
    /\ members[GroupSize].pc = 2
    /\ Has(members[1].symmetricKeys, GroupSize)
    /\ Has(members[GroupSize].symmetricKeys, 1)

\* ------------------------------------------------------------------------
\* The group: members are registered one by one
\* ------------------------------------------------------------------------

\* The most RegisterMemberID calls on a group.
MaxRegistered == 3

\* Group.RegisterMemberID: the ID is appended to memberIDs.
RegisterMemberID(g, id) == [g EXCEPT !.memberIDs = Append(@, id)]

\* Group.MemberIDs.
MemberIDs(g) == g.memberIDs

\* A new group: nobody is registered.
GroupInit ==
    /\ group = [groupSize |-> MaxRegistered,
                dishonestThreshold |-> DishonestThreshold,
                memberIDs |-> <<>>]
    /\ members = << >>
    /\ net = EmptyNet
    /\ faults = 0
    /\ probe = NoProbe

\* A member announces its presence under some int.
GroupRegister ==
    /\ Len(group.memberIDs) < MaxRegistered
    /\ \E id \in (0 - 1) .. MaxID :
        group' = RegisterMemberID(group, id)
    /\ UNCHANGED <<members, net, faults, probe>>

GroupNext == GroupRegister

SpecGroup == GroupInit /\ [][GroupNext]_vars

\* C30: after any sequence of RegisterMemberID calls the member IDs of the
\* group are positive and no ID is in the list twice.
C30_MemberIDsPositiveAndUnique ==
    /\ \A n \in DOMAIN MemberIDs(group) : MemberIDs(group)[n] > 0
    /\ \A n, k \in DOMAIN MemberIDs(group) :
            MemberIDs(group)[n] = MemberIDs(group)[k] => n = k

\* ------------------------------------------------------------------------
\* Phase 4: what a failed call leaves behind
\* ------------------------------------------------------------------------

\* C34: when the call returns an error, receivedValidSharesS,
\* receivedValidSharesT and receivedValidPeerCommitments of the member are
\* what they were before the call.
C34_FailedCallRecordsNothing ==
    (probe.pc = "verified" /\ probe.err # NoError) =>
        /\ probe.cvm.receivedValidSharesS = probe.before.receivedValidSharesS
        /\ probe.cvm.receivedValidSharesT = probe.before.receivedValidSharesT
        /\ probe.cvm.receivedValidPeerCommitments
                = probe.before.receivedValidPeerCommitments

\* ------------------------------------------------------------------------
\* Phase 4 on lists that hold several messages of one sender
\* ------------------------------------------------------------------------

\* The most messages in each of the two lists.
MaxRepeats == 3

\* The polynomials a sender may announce: its own and its neighbour's.
AnnouncedCoefficients(j) == {DealtCoefficients(j), DealtCoefficients(j + 1)}

\* Any sender, again or for the first time, runs Phase 3 with one of its
\* polynomials; both of its messages, or its commitments message alone,
\* are added to the lists of the verifying member.
RepeatDeliver ==
    /\ probe.pc = "receiving"
    /\ Len(probe.sharesMessages) < MaxRepeats
    /\ Len(probe.commitmentsMessages) < MaxRepeats
    /\ \E j \in IDs \ {probe.cvm.ID} :
        \E a \in AnnouncedCoefficients(j),
           arrive \in {"both", "commitments"} :
            LET r == CalculateMembersSharesAndCommitments(
                        members[j], group.memberIDs, a, DealtCoefficients(j))
            IN  /\ r.member.err = NoError
                /\ probe' = [probe EXCEPT
                        !.sharesMessages =
                            IF arrive = "commitments" THEN @
                            ELSE Append(@, r.sharesMessage),
                        !.commitmentsMessages = Append(@, r.commitmentsMessage)]
    /\ UNCHANGED <<group, members, net, faults>>

RepeatNext == RepeatDeliver \/ VerifyCall

SpecRepeat == VerifyInit /\ [][RepeatNext]_vars

\* C35: after a call without an error no sender is both accused in the
\* returned message and recorded in receivedValidSharesS,
\* receivedValidSharesT or receivedValidPeerCommitments, also when the
\* lists hold several messages of one sender.
C35_AccusedIsNotRecorded ==
    (probe.pc = "verified" /\ probe.err = NoError) =>
        \A j \in DOMAIN probe.message.accusedMembersKeys :
            /\ ~Has(probe.cvm.receivedValidSharesS, j)
            /\ ~Has(probe.cvm.receivedValidSharesT, j)
            /\ ~Has(probe.cvm.receivedValidPeerCommitments, j)

\* ------------------------------------------------------------------------
\* Phases 5 and 9: the list a resolution returns
\* ------------------------------------------------------------------------

\* C36: when Phase 5 or Phase 9 resolution returns without an error, the
\* returned list has one entry for each accusation of the input, in the
\* order the accusations were visited, and the entry is the accuser or the
\* accused of that accusation; no other ID is returned.
C36_OneVerdictPerAccusation ==
    (probe.pc = "resolved" /\ probe.result.err = NoError) =>
        /\ Len(probe.result.disqualifiedMembers) = Len(probe.order)
        /\ Len(probe.order)
            = Cardinality({<<x, y>> \in IDs \X IDs :
                /\ Has(probe.accusations, x)
                /\ Has(probe.accusations[x], y)})
        /\ \A n \in DOMAIN probe.order :
            probe.result.disqualifiedMembers[n]
                \in {probe.order[n].accuserID, probe.order[n].accusedID}

\* One accuser accuses two members in Phase 9, with and without a reason:
\* the list holds an accused and the accuser.
C36_Witness ==
    /\ probe.pc = "resolved"
    /\ probe.phase = 9
    /\ probe.result.err = NoError
    /\ Len(probe.order) = 2
    /\ probe.order[1].accuserID = probe.order[2].accuserID
    /\ probe.result.disqualifiedMembers[1] = probe.order[1].accusedID
    /\ probe.result.disqualifiedMembers[2] = probe.order[2].accuserID

\* ------------------------------------------------------------------------
\* Threshold signature: the signature shares a member collects and
\* completes (thresholdsignature/states.go)
\* ------------------------------------------------------------------------

\* The most messages a member receives in signatureShareState.
MaxReceived == 3

\* bn256.G1 scaled down: the points of y^2 = x^3 + 3 over Z_P, and infinity.
IsOnCurve(x, y) == (y * y) % P = (x * x * x + 3) % P

Infinity == [x |-> 0, y |-> 1, z |-> 0]

\* G1.Unmarshal: the error, "" if there is none.
UnmarshalG1Error(shareBytes) ==
    IF Len(shareBytes) < 2 THEN "bn256: not enough data"
    ELSE IF shareBytes[1] = 0 /\ shareBytes[2] = 0 THEN NoError
    ELSE IF ~IsOnCurve(shareBytes[1], shareBytes[2]) THEN "bn256: malformed point"
    ELSE NoError

\* G1.Unmarshal: the point read from the first two bytes.
UnmarshalG1(shareBytes) ==
    IF shareBytes[1] = 0 /\ shareBytes[2] = 0 THEN Infinity
    ELSE [x |-> shareBytes[1], y |-> shareBytes[2], z |-> 1]

\* group.IsMessageFromSelf.
IsMessageFromSelf(memberIndex, message) == message.senderID = memberIndex

\* A slip in Receive: the messages of the member's own index are kept.
ReceiveFromAnyone(sss, msg) ==
    IF msg.type = "SignatureShareMessage"
    THEN [sss EXCEPT !.signatureShareMessages = Append(@, msg)]
    ELSE sss

\* signatureShareState.Receive: the state after the call (it returns nil).
Receive(sss, msg) ==
    IF msg.type = "SignatureShareMessage"
    THEN IF ~IsMessageFromSelf(sss.memberIndex, msg)
         THEN [sss EXCEPT !.signatureShareMessages = Append(@, msg)]
         ELSE sss
    ELSE sss

\* signatureShareState.Next: the signatureCompleteState.
NextOfSignatureShare(sss) ==
    [memberIndex |-> sss.memberIndex,
     threshold |-> sss.threshold,
     selfSignatureShare |-> sss.selfSignatureShare,
     previousPhaseMessages |-> sss.signatureShareMessages,
     fullSignature |-> {}]

\* The first loop of signatureCompleteState.Initiate, from message n on.
RECURSIVE seenSharesFrom(_, _, _)
seenSharesFrom(messages, n, seenShares) ==
    IF n > Len(messages) THEN seenShares
    ELSE IF UnmarshalG1Error(messages[n].ShareBytes) # NoError
    THEN seenSharesFrom(messages, n + 1, seenShares)
    ELSE seenSharesFrom(messages, n + 1,
            Put(seenShares, messages[n].senderID, UnmarshalG1(messages[n].ShareBytes)))

\* ThresholdSigner.CompleteSignature: the error, "" if there is none.
CompleteSignatureError(seenSharesSlice, threshold) ==
    IF Len(seenSharesSlice) < threshold
    THEN "not enough shares to reconstruct signature"
    ELSE NoError

\* ThresholdSigner.CompleteSignature and G1Point.Compress: the signature
\* is a function of the shares it is made of.
CompleteSignature(seenSharesSlice) ==
    {<<seenSharesSlice[n].I, seenSharesSlice[n].V>> : n \in DOMAIN seenSharesSlice}

\* signatureCompleteState.Initiate, the second loop visiting the seen
\* shares in the given order: the state after the call, the slice passed to
\* CompleteSignature and the error.
InitiateComplete(scs, order) ==
    LET seenShares == seenSharesFrom(scs.previousPhaseMessages, 1,
                        Put(EmptyMap, scs.memberIndex, scs.selfSignatureShare))
        seenSharesSlice == [n \in 1 .. Len(order) |->
                                [I |-> order[n], V |-> seenShares[order[n]]]]
        err == CompleteSignatureError(seenSharesSlice, scs.threshold)
    IN  [state |-> IF err # NoError THEN scs
                   ELSE [scs EXCEPT !.fullSignature = CompleteSignature(seenSharesSlice)],
         seenSharesSlice |-> seenSharesSlice,
         err |-> err]

\* The indexes Initiate has a share of, before its second loop.
SeenIndexes(scs) ==
    DOMAIN seenSharesFrom(scs.previousPhaseMessages, 1,
                Put(EmptyMap, scs.memberIndex, scs.selfSignatureShare))

\* The share bytes a message can carry: too short, a point of the curve,
\* a pair off the curve, and a point with a byte more.
GivenShareBytes == {<<1>>, <<1, 2>>, <<1, 3>>, <<0, 5, 7>>}

\* The messages that can reach the member.
GivenMessages ==
    [type : {"SignatureShareMessage"}, senderID : 1 .. HonestGroupSize,
     ShareBytes : GivenShareBytes]
        \cup {[type |-> "other", senderID |-> 1, ShareBytes |-> <<>>]}

\* A member in signatureShareState after its Initiate: it holds its own
\* share and has received nothing.
SigningInit ==
    /\ group = NewGroup(HonestGroupSize)
    /\ members = << >>
    /\ net = EmptyNet
    /\ faults = 0
    /\ \E self \in 1 .. HonestGroupSize, threshold \in 1 .. DishonestThreshold + 1 :
        probe = [pc |-> "signatureShareState",
                 state |-> [memberIndex |-> self,
                            threshold |-> threshold,
                            selfSignatureShare |-> [x |-> 0, y |-> 6, z |-> 1],
                            signatureShareMessages |-> <<>>],
                 received |-> <<>>]

\* A message is delivered to the member in signatureShareState.
SigningReceive ==
    /\ probe.pc = "signatureShareState"
    /\ Len(probe.received) < MaxReceived
    /\ \E msg \in GivenMessages :
        probe' = [probe EXCEPT !.state = Receive(@, msg),
                               !.received = Append(@, msg)]
    /\ UNCHANGED <<group, members, net, faults>>

\* The state machine moves on to signatureCompleteState.
SigningNextState ==
    /\ probe.pc = "signatureShareState"
    /\ probe' = [probe EXCEPT !.pc = "signatureCompleteState",
                              !.state = NextOfSignatureShare(@)]
    /\ UNCHANGED <<group, members, net, faults>>

\* signatureCompleteState.Initiate, with every order of its map loop.
SigningComplete ==
    /\ probe.pc = "signatureCompleteState"
    /\ \E order \in Perms(SeenIndexes(probe.state)) :
        LET r == InitiateComplete(probe.state, order)
        IN  probe' = [pc |-> "completed",
                      before |-> probe.state,
                      state |-> r.state,
                      received |-> probe.received,
                      seenSharesSlice |-> r.seenSharesSlice,
                      err |-> r.err]
    /\ UNCHANGED <<group, members, net, faults>>

SigningNext == SigningReceive \/ SigningNextState \/ SigningComplete

SpecSigning == SigningInit /\ [][SigningNext]_vars

\* The places in the received messages where sender j sent a share that
\* unmarshals.
ReadableFrom(j) ==
    {n \in DOMAIN probe.received :
        /\ probe.received[n].type = "SignatureShareMessage"
        /\ probe.received[n].senderID = j
        /\ UnmarshalG1Error(probe.received[n].ShareBytes) = NoError}

\* C37: for every sequence of messages received in signatureShareState,
\* Initiate of signatureCompleteState passes to CompleteSignature at most
\* one share for each member index; the member's own share is there under
\* its own index, whatever was received; a share that does not unmarshal is
\* passed over and the shares of the other messages are still passed on;
\* and Initiate returns an error only if CompleteSignature does.
C37_OneSharePerMemberOwnShareKept ==
    probe.pc = "completed" =>
        LET slice == probe.seenSharesSlice
            self == probe.before.memberIndex
        IN  /\ \A m, n \in DOMAIN slice : slice[m].I = slice[n].I => m = n
            /\ \E n \in DOMAIN slice :
                    /\ slice[n].I = self
                    /\ slice[n].V = probe.before.selfSignatureShare
            /\ \A j \in (1 .. HonestGroupSize) \ {self} :
                    IF ReadableFrom(j) = {}
                    THEN \A n \in DOMAIN slice : slice[n].I # j
                    ELSE \E n \in DOMAIN slice :
                            /\ slice[n].I = j
                            /\ \E k \in ReadableFrom(j) :
                                slice[n].V = UnmarshalG1(probe.received[k].ShareBytes)
            /\ probe.err # NoError
                    => probe.err = CompleteSignatureError(slice, probe.before.threshold)

\* The member received a share under its own index that unmarshals, a
\* share of a peer that does not, and a share of another peer that does;
\* the signature is completed from two shares.
C37_Witness ==
    /\ probe.pc = "completed"
    /\ probe.err = NoError
    /\ ReadableFrom(probe.before.memberIndex) # {}
    /\ Len(probe.seenSharesSlice) = 2
    /\ \E n \in DOMAIN probe.received :
            /\ probe.received[n].type = "SignatureShareMessage"
            /\ probe.received[n].senderID # probe.before.memberIndex
            /\ UnmarshalG1Error(probe.received[n].ShareBytes) # NoError
            /\ \A k \in DOMAIN probe.seenSharesSlice :
                    probe.seenSharesSlice[k].I # probe.received[n].senderID

\* ------------------------------------------------------------------------
\* The local broadcast channel (package local)
\* ------------------------------------------------------------------------

\* A nil interface value.
Nil == [kind |-> "nil", at |-> 0]

\* The *localIdentifier of the n-th channel instance: a pointer, equal to
\* itself only.
LocalIdentifier(n) == [kind |-> "*localIdentifier", at |-> n]

\* A protocol identifier: the ID of a member.
ProtocolIdentifier(id) == [kind |-> "MemberID", at |-> id]

\* No channel was created yet: the channels map is nil.
NoChannels == [channels |-> EmptyMap, instances |-> <<>>]

\* channel(name): the registry with a new localChannel appended to
\* channels[name]; the new instance is the last of instances.
channel(registry, name) ==
    LET n == Len(registry.instances) + 1
        localChannels == IF Has(registry.channels, name)
                         THEN registry.channels[name]
                         ELSE <<>>
    IN  [channels |-> Put(registry.channels, name, Append(localChannels, n)),
         instances |-> Append(registry.instances,
            [name |-> name,
             identifier |-> LocalIdentifier(n),
             messageHandlers |-> <<>>,
             unmarshalersByType |-> EmptyMap,
             transportToProtoIdentifiers |-> EmptyMap,
             protoToTransportIdentifiers |-> EmptyMap])]

\* localChannel.deliver: the snapshot of the handlers of lc, and the message
\* the goroutine it starts hands to each of them in turn.  lc is the channel
\* as deliver reads it: the handlers when it holds messageHandlersMutex,
\* the identifiers when it holds identifiersMutex.
deliver(at, lc, senderIdentifier, payload) ==
    [to |-> at,
     snapshot |-> lc.messageHandlers,
     message |-> [senderIdentifier |-> senderIdentifier,
                  protocolIdentifier |->
                    IF Has(lc.transportToProtoIdentifiers, senderIdentifier)
                    THEN lc.transportToProtoIdentifiers[senderIdentifier]
                    ELSE Nil,
                  payload |-> payload]]

\* The transport identifier doSend filters the target channels by; nil if
\* the recipient is no *localIdentifier and the sending channel has no
\* transport identifier for it.
transportRecipientOf(lc, recipient) ==
    IF recipient.kind = "*localIdentifier" THEN recipient
    ELSE IF Has(lc.protoToTransportIdentifiers, recipient)
    THEN lc.protoToTransportIdentifiers[recipient]
    ELSE Nil

\* channels[name] as doSend reads it under channelsMutex: a slip leaves the
\* first instance out.
channelsOfButFirst(registry, name) == Tail(registry.channels[name])

\* channels[name] as doSend reads it under channelsMutex.
channelsOf(registry, name) == registry.channels[name]

\* The filter of doSend: the potential targets if there is no transport
\* recipient, or the first of them whose identifier is the transport
\* recipient.
filterTargets(instances, potentialTargets, transportRecipient) ==
    LET matching == {k \in DOMAIN potentialTargets :
                        instances[potentialTargets[k]].identifier
                            = transportRecipient}
    IN  IF transportRecipient = Nil THEN potentialTargets
        ELSE IF matching = {} THEN <<>>
        ELSE <<potentialTargets[MinOf(matching)]>>

\* payload.Marshal, and Unmarshal of the registered unmarshaler: the
\* errors, "" if there is none.  The bytes are the body of the payload.
MarshalError(payload) ==
    IF payload.marshals THEN NoError ELSE "marshal failed"

UnmarshalError(bytes) ==
    IF bytes = "malformed" THEN "unmarshal failed" ELSE NoError

\* localChannel.Recv: the channel with the handler appended.
Recv(lc, handler) == [lc EXCEPT !.messageHandlers = Append(@, handler)]

\* The loop of UnregisterRecv from place i on: a handler of the type is
\* overwritten with the handler removedCount places from the end, and the
\* list is cut by removedCount at the end.
RECURSIVE unregisterFrom(_, _, _, _)
unregisterFrom(messageHandlers, handlerType, i, removedCount) ==
    IF i > Len(messageHandlers)
    THEN SubSeq(messageHandlers, 1, Len(messageHandlers) - removedCount)
    ELSE IF messageHandlers[i].Type = handlerType
    THEN unregisterFrom(
            [messageHandlers EXCEPT
                ![i] = messageHandlers[Len(messageHandlers) - removedCount]],
            handlerType, i + 1, removedCount + 1)
    ELSE unregisterFrom(messageHandlers, handlerType, i + 1, removedCount)

\* localChannel.UnregisterRecv.
UnregisterRecv(lc, handlerType) ==
    [lc EXCEPT !.messageHandlers = unregisterFrom(@, handlerType, 1, 0)]

\* A slip in RegisterIdentifier: the protocol identifier is not looked up.
RegisterIdentifierUnchecked(lc, transportIdentifier, protocolIdentifier) ==
    IF Has(lc.transportToProtoIdentifiers, transportIdentifier)
    THEN [channel |-> lc,
          err |-> "already have a protocol identifier associated with ["
                    \o ToString(transportIdentifier.at) \o "]"]
    ELSE [channel |-> [lc EXCEPT
                !.transportToProtoIdentifiers =
                    Put(@, transportIdentifier, protocolIdentifier),
                !.protoToTransportIdentifiers =
                    Put(@, protocolIdentifier, transportIdentifier)],
          err |-> NoError]

\* localChannel.RegisterIdentifier: the channel after the call and the
\* error.
RegisterIdentifier(lc, transportIdentifier, protocolIdentifier) ==
    IF Has(lc.transportToProtoIdentifiers, transportIdentifier)
    THEN [channel |-> lc,
          err |-> "already have a protocol identifier associated with ["
                    \o ToString(transportIdentifier.at) \o "]"]
    ELSE IF Has(lc.protoToTransportIdentifiers, protocolIdentifier)
    THEN [channel |-> lc,
          err |-> "already have a transport identifier associated with ["
                    \o ToString(protocolIdentifier.at) \o "]"]
    ELSE [channel |-> [lc EXCEPT
                !.transportToProtoIdentifiers =
                    Put(@, transportIdentifier, protocolIdentifier),
                !.protoToTransportIdentifiers =
                    Put(@, protocolIdentifier, transportIdentifier)],
          err |-> NoError]

\* localChannel.RegisterUnmarshaler of an unmarshaler of the given type:
\* the channel after the call and the error.
RegisterUnmarshaler(lc, tpe) ==
    IF Has(lc.unmarshalersByType, tpe)
    THEN [channel |-> lc,
          err |-> "type " \o tpe \o " already has an associated unmarshaler"]
    ELSE [channel |-> [lc EXCEPT !.unmarshalersByType = Put(@, tpe, tpe)],
          err |-> NoError]

\* ------------------------------------------------------------------------
\* Send and SendTo on the local channel: instances are created under two
\* names and register handlers; the first instance registers identifiers
\* and an unmarshaler, and one goroutine sends from it.  doSend holds no
\* lock from one read to the next, so the other goroutines run between
\* its reads.
\* ------------------------------------------------------------------------

\* The most channel instances.
MaxChannels == 3

ChannelNames == {"a", "b"}

\* The instance that sends.
Sender == 1

\* The payloads sent: one that goes through, one that does not marshal, one
\* whose bytes do not unmarshal, and one of a type no unmarshaler is
\* registered for.
GivenPayloads ==
    {[type |-> "T1", marshals |-> TRUE, body |-> "hello"],
     [type |-> "T1", marshals |-> FALSE, body |-> "hello"],
     [type |-> "T1", marshals |-> TRUE, body |-> "malformed"],
     [type |-> "T2", marshals |-> TRUE, body |-> "hello"]}

\* The recipients of SendTo: two members, and the identifier of any
\* instance.
GivenRecipients ==
    {ProtocolIdentifier(1), ProtocolIdentifier(2)}
        \cup {LocalIdentifier(n) : n \in 1 .. Len(net.instances)}

\* The runtime stops the program.
FatalError == "fatal error: concurrent map read and map write"

\* The sending goroutine has not returned and the program runs.
Sending == probe.pc \notin {"sent", FatalError}

\* The instances created under the name.
Namesakes(name) ==
    {n \in DOMAIN net.instances : net.instances[n].name = name}

ChannelInit ==
    /\ group = NewGroup(HonestGroupSize)
    /\ members = [pc |-> "idle"]
    /\ net = NoChannels
    /\ faults = 0
    /\ probe = [pc |-> "running"]

\* localProvider.ChannelFor.
ChannelFor ==
    /\ Sending
    /\ Len(net.instances) < MaxChannels
    /\ \E name \in ChannelNames : net' = channel(net, name)
    /\ UNCHANGED <<group, members, faults, probe>>

\* An instance without a handler registers one.
ChannelRecv ==
    /\ Sending
    /\ \E n \in DOMAIN net.instances :
        /\ net.instances[n].messageHandlers = <<>>
        /\ net' = [net EXCEPT !.instances[n] =
                        Recv(@, [Type |-> "T1", Handler |-> n])]
    /\ UNCHANGED <<group, members, faults, probe>>

\* The sending instance learns that member 1 is at some instance.
ChannelRegisterIdentifier ==
    /\ Sending
    /\ Len(net.instances) >= Sender
    /\ \E n \in DOMAIN net.instances :
        LET r == RegisterIdentifier(net.instances[Sender],
                    LocalIdentifier(n), ProtocolIdentifier(1))
        IN  /\ r.err = NoError
            /\ net' = [net EXCEPT !.instances[Sender] = r.channel]
    /\ UNCHANGED <<group, members, faults, probe>>

\* A goroutine calls RegisterUnmarshaler for T1 on the sending instance: it
\* locks unmarshalersMutex, finds no unmarshaler of the type and begins to
\* write the map.
ChannelRegisterUnmarshaler ==
    /\ Sending
    /\ Len(net.instances) >= Sender
    /\ members.pc = "idle"
    /\ RegisterUnmarshaler(net.instances[Sender], "T1").err = NoError
    /\ members' = [pc |-> "writing"]
    /\ UNCHANGED <<group, net, faults, probe>>

\* The write of the map ends, unmarshalersMutex is unlocked and
\* RegisterUnmarshaler returns; a write that has begun ends whether the
\* Send has returned or not.
ChannelUnmarshalerRegistered ==
    /\ probe.pc # FatalError
    /\ members.pc = "writing"
    /\ net' = [net EXCEPT !.instances[Sender] =
                    RegisterUnmarshaler(@, "T1").channel]
    /\ members' = [pc |-> "returned"]
    /\ UNCHANGED <<group, faults, probe>>

\* doSend begins: under channelsMutex it reads the channels of the name.
\* The instances of the name and their handlers at this time are kept next
\* to it.
SendBegin(op, recipient, payload) ==
    LET name == net.instances[Sender].name
    IN  probe' = [pc |-> "resolving", op |-> op, recipient |-> recipient,
                  payload |-> payload,
                  targetChannels |-> channelsOf(net, name),
                  namesakes |-> Namesakes(name),
                  handlersThen |-> [n \in Namesakes(name) |->
                                        net.instances[n].messageHandlers],
                  next |-> 1, snapshot |-> <<>>,
                  err |-> NoError, deliveries |-> <<>>]

\* The sending instance broadcasts a payload.
ChannelSend ==
    /\ probe.pc = "running"
    /\ Len(net.instances) >= Sender
    /\ \E payload \in GivenPayloads : SendBegin("Send", Nil, payload)
    /\ UNCHANGED <<group, members, net, faults>>

\* The sending instance sends a payload to a recipient.
ChannelSendTo ==
    /\ probe.pc = "running"
    /\ Len(net.instances) >= Sender
    /\ \E payload \in GivenPayloads, recipient \in GivenRecipients :
        SendBegin("SendTo", recipient, payload)
    /\ UNCHANGED <<group, members, net, faults>>

\* doSend returns the error.
Returned(err) == [probe EXCEPT !.pc = "sent", !.err = err]

\* doSend under identifiersMutex of the sending instance: it looks the
\* recipient up, filters the channels it read before, and marshals the
\* payload.
SendResolve ==
    /\ probe.pc = "resolving"
    /\ LET transportRecipient ==
                transportRecipientOf(net.instances[Sender], probe.recipient)
           targetChannels ==
                filterTargets(net.instances, probe.targetChannels, transportRecipient)
       IN  probe' = IF MarshalError(probe.payload) # NoError
                    THEN Returned(MarshalError(probe.payload))
                    ELSE [probe EXCEPT !.pc = "looking",
                                       !.targetChannels = targetChannels]
    /\ UNCHANGED <<group, members, net, faults>>

\* doSend reads unmarshalersByType, holding no lock, and unmarshals.  A
\* read during the write of RegisterUnmarshaler finds the unmarshaler or
\* does not, or the runtime stops the program.
SendLookup ==
    /\ probe.pc = "looking"
    /\ LET racing == members.pc = "writing"
           registered == Has(net.instances[Sender].unmarshalersByType,
                             probe.payload.type)
       IN  \/ /\ registered \/ (racing /\ probe.payload.type = "T1")
              /\ probe' =
                    IF UnmarshalError(probe.payload.body) # NoError
                    THEN Returned(UnmarshalError(probe.payload.body))
                    ELSE IF probe.targetChannels = <<>>
                    THEN Returned(NoError)
                    ELSE [probe EXCEPT !.pc = "delivering"]
           \/ /\ ~registered
              /\ probe' = Returned("Couldn't find unmarshaler for type "
                                        \o probe.payload.type)
           \/ /\ racing
              /\ probe' = [probe EXCEPT !.pc = FatalError]
    /\ UNCHANGED <<group, members, net, faults>>

\* deliver on the next target, under its messageHandlersMutex: the
\* snapshot of its handlers.
SendSnapshot ==
    /\ probe.pc = "delivering"
    /\ LET target == probe.targetChannels[probe.next]
       IN  probe' = [probe EXCEPT
                !.pc = "identifying",
                !.snapshot = net.instances[target].messageHandlers]
    /\ UNCHANGED <<group, members, net, faults>>

\* deliver on the same target, under its identifiersMutex: the protocol
\* identifier of the sender, the message, and the goroutine that hands the
\* message to the handlers of the snapshot; doSend goes on to the next
\* target or returns nil.
SendIdentify ==
    /\ probe.pc = "identifying"
    /\ LET target == probe.targetChannels[probe.next]
           lc == [net.instances[target] EXCEPT !.messageHandlers = probe.snapshot]
           delivery == deliver(target, lc, net.instances[Sender].identifier,
                            [type |-> probe.payload.type, body |-> probe.payload.body])
       IN  probe' = [probe EXCEPT
                !.pc = IF probe.next = Len(probe.targetChannels)
                       THEN "sent" ELSE "delivering",
                !.next = @ + 1,
                !.snapshot = <<>>,
                !.deliveries = Append(@, delivery)]
    /\ UNCHANGED <<group, members, net, faults>>

ChannelNext ==
    \/ ChannelFor
    \/ ChannelRecv
    \/ ChannelRegisterIdentifier
    \/ ChannelRegisterUnmarshaler
    \/ ChannelUnmarshalerRegistered
    \/ ChannelSend
    \/ ChannelSendTo
    \/ SendResolve
    \/ SendLookup
    \/ SendSnapshot
    \/ SendIdentify

SpecChannel == ChannelInit /\ [][ChannelNext]_vars

\* The handlers that were handed the payload sent, as pairs of an instance
\* and a place in its handler list.
Reached ==
    UNION {{<<probe.deliveries[k].to, h>> : h \in DOMAIN probe.deliveries[k].snapshot} :
                k \in DOMAIN probe.deliveries}

\* The handlers registered on the instances of the given name.
Listening(name) ==
    UNION {{<<n, h>> : h \in DOMAIN net.instances[n].messageHandlers} :
                n \in Namesakes(name)}

\* The instances the recipient of the SendTo stands for: the one the
\* identifier points at, or the one the sending instance registered the
\* member at.
RecipientInstances ==
    {n \in DOMAIN net.instances :
        \/ net.instances[n].identifier = probe.recipient
        \/ /\ Has(net.instances[Sender].protoToTransportIdentifiers, probe.recipient)
           /\ net.instances[n].identifier
                = net.instances[Sender].protoToTransportIdentifiers[probe.recipient]}

\* C32: for every SendTo(recipient, m), no handler of an instance other
\* than the recipient's is handed m.
C32_SendToReachesRecipientOnly ==
    (probe.pc = "sent" /\ probe.op = "SendTo") =>
        \A d \in Reached : d[1] \in RecipientInstances

\* The payload and the sender of every delivery are those of the Send.
DeliveredAsSent ==
    \A k \in DOMAIN probe.deliveries :
        /\ probe.deliveries[k].message.payload
                = [type |-> probe.payload.type, body |-> probe.payload.body]
        /\ probe.deliveries[k].message.senderIdentifier
                = net.instances[Sender].identifier

\* C33 as stated: a Send without an error hands the payload to the handlers
\* registered on every instance of the sender's name, the sender's own
\* included, each with the payload sent, and to no instance of another
\* name; a Send with an error (marshal failure, no unmarshaler for the
\* type, unmarshal failure) hands it to nobody.
C33_SendReachesEveryInstanceOfTheName ==
    (probe.pc = "sent" /\ probe.op = "Send") =>
        IF probe.err = NoError
        THEN /\ Reached = Listening(net.instances[Sender].name)
             /\ DeliveredAsSent
             /\ \A k, m \in DOMAIN probe.deliveries :
                    probe.deliveries[k].to = probe.deliveries[m].to => k = m
        ELSE /\ Reached = {}
             /\ probe.deliveries = <<>>

\* The first list is the beginning of the second.
IsPrefix(s, t) == Len(s) <= Len(t) /\ s = SubSeq(t, 1, Len(s))

\* C33, amended: a Send without an error makes one delivery to each
\* instance that was created under the sender's name before doSend read the
\* channels of the name, the sender's own included, and to no other
\* instance; the handlers of each are those registered on it when it is
\* delivered to: all that were registered when the Send began, and none but
\* those registered when it returns.  The payload and the sender are those
\* of the Send, which marshals and unmarshals.  A Send with an error makes
\* no delivery.
C33_SendReachesEveryInstanceRead ==
    (probe.pc = "sent" /\ probe.op = "Send") =>
        IF probe.err = NoError
        THEN /\ {probe.deliveries[k].to : k \in DOMAIN probe.deliveries}
                    = probe.namesakes
             /\ Len(probe.deliveries) = Cardinality(probe.namesakes)
             /\ Sender \in probe.namesakes
             /\ \A k \in DOMAIN probe.deliveries :
                    LET d == probe.deliveries[k]
                    IN  /\ IsPrefix(probe.handlersThen[d.to], d.snapshot)
                        /\ IsPrefix(d.snapshot, net.instances[d.to].messageHandlers)
             /\ DeliveredAsSent
             /\ probe.payload.marshals
             /\ probe.payload.body # "malformed"
        ELSE /\ Reached = {}
             /\ probe.deliveries = <<>>

\* A broadcast to the two instances of the sender's name, each with a
\* handler, while a third instance of the name is created and registers
\* its handler before the Send returns: the third is not reached.
C33_Witness ==
    /\ probe.pc = "sent"
    /\ probe.op = "Send"
    /\ probe.err = NoError
    /\ Len(net.instances) = 3
    /\ Namesakes(net.instances[Sender].name) = {1, 2, 3}
    /\ \A n \in DOMAIN net.instances : net.instances[n].messageHandlers # <<>>
    /\ Reached = {<<1, 1>>, <<2, 1>>}

\* ------------------------------------------------------------------------
\* The handler list of one local channel: Recv and UnregisterRecv
\* ------------------------------------------------------------------------

\* The most handlers registered on the channel.
MaxHandlers == 3

\* The handlers registered: two functions for each of two types.
GivenHandlers == [Type : {"T1", "T2"}, Handler : 1 .. 2]

ListenInit ==
    /\ group = NewGroup(HonestGroupSize)
    /\ members = << >>
    /\ net = channel(NoChannels, "a")
    /\ faults = 0
    /\ probe = [pc |-> "running"]

\* A handler is registered.
ListenRecv ==
    /\ probe.pc = "running"
    /\ Len(net.instances[1].messageHandlers) < MaxHandlers
    /\ \E handler \in GivenHandlers :
        net' = [net EXCEPT !.instances[1] = Recv(@, handler)]
    /\ UNCHANGED <<group, members, faults, probe>>

\* The handlers of a type are unregistered.
ListenUnregisterRecv ==
    /\ probe.pc = "running"
    /\ \E handlerType \in {"T1", "T2"} :
        /\ net' = [net EXCEPT !.instances[1] = UnregisterRecv(@, handlerType)]
        /\ probe' = [pc |-> "unregistered",
                     handlerType |-> handlerType,
                     before |-> net.instances[1].messageHandlers]
    /\ UNCHANGED <<group, members, faults>>

ListenNext == ListenRecv \/ ListenUnregisterRecv

SpecListen == ListenInit /\ [][ListenNext]_vars

\* How often a handler is in a handler list.
TimesIn(messageHandlers, handler) ==
    Cardinality({n \in DOMAIN messageHandlers : messageHandlers[n] = handler})

\* C38: after UnregisterRecv(T) no handler of type T is in the handler
\* list, and every handler of another type that was registered before the
\* call is still registered, as often as it was, whatever the list held
\* and in whatever order.
C38_UnregisterRemovesTheTypeOnly ==
    probe.pc = "unregistered" =>
        LET after == net.instances[1].messageHandlers
        IN  /\ \A n \in DOMAIN after : after[n].Type # probe.handlerType
            /\ \A handler \in GivenHandlers :
                    handler.Type # probe.handlerType
                        => TimesIn(after, handler) = TimesIn(probe.before, handler)

\* ------------------------------------------------------------------------
\* The identifier maps of one local channel: RegisterIdentifier
\* ------------------------------------------------------------------------

IdentifyInit ==
    /\ group = NewGroup(HonestGroupSize)
    /\ members = << >>
    /\ net = channel(NoChannels, "a")
    /\ faults = 0
    /\ probe = [pc |-> "running"]

\* RegisterIdentifier is called with the transport identifier of some
\* instance and the protocol identifier of some member.
IdentifyRegister ==
    /\ \E n \in 1 .. MaxChannels, id \in 1 .. MaxID :
        LET r == RegisterIdentifier(net.instances[1],
                    LocalIdentifier(n), ProtocolIdentifier(id))
        IN  /\ net' = [net EXCEPT !.instances[1] = r.channel]
            /\ probe' = [pc |-> "registered",
                         transportIdentifier |-> LocalIdentifier(n),
                         protocolIdentifier |-> ProtocolIdentifier(id),
                         before |-> net.instances[1],
                         err |-> r.err]
    /\ UNCHANGED <<group, members, faults>>

IdentifyNext == IdentifyRegister

SpecIdentify == IdentifyInit /\ [][IdentifyNext]_vars

\* g maps every value of f back to its key.
InverseOf(f, g) == \A x \in DOMAIN f : Has(g, f[x]) /\ g[f[x]] = x

\* C39: after any sequence of RegisterIdentifier calls
\* transportToProtoIdentifiers and protoToTransportIdentifiers are
\* one-to-one and inverse to each other, and a call that returns an error
\* changes neither map.
C39_IdentifierMapsAreInverse ==
    LET lc == net.instances[1]
    IN  /\ InverseOf(lc.transportToProtoIdentifiers, lc.protoToTransportIdentifiers)
        /\ InverseOf(lc.protoToTransportIdentifiers, lc.transportToProtoIdentifiers)
        /\ (probe.pc = "registered" /\ probe.err # NoError) =>
                /\ lc.transportToProtoIdentifiers
                        = probe.before.transportToProtoIdentifiers
                /\ lc.protoToTransportIdentifiers
                        = probe.before.protoToTransportIdentifiers

\* Two identifiers are registered, and the last call, for a new transport
\* identifier and a protocol identifier already taken, returned an error.
C39_Witness ==
    /\ probe.pc = "registered"
    /\ probe.err # NoError
    /\ ~Has(probe.before.transportToProtoIdentifiers, probe.transportIdentifier)
    /\ Has(probe.before.protoToTransportIdentifiers, probe.protocolIdentifier)
    /\ Cardinality(DOMAIN net.instances[1].transportToProtoIdentifiers) = 2

\* ------------------------------------------------------------------------
\* Goroutines on one local channel: RegisterUnmarshaler and Send step by
\* step, a step for every lock region, with the unmarshalersMutex of the
\* channel
\* ------------------------------------------------------------------------

\* The goroutines that call into the channel.
MaxGoroutines == 2

PayloadTypes == {"T1", "T2"}

\* The goroutine is at an access of unmarshalersByType: the read or the
\* write of RegisterUnmarshaler, or the read of doSend.
Accessing(g) == members[g].pc \in {"read", "write", "lookup"}

RaceInit ==
    /\ group = NewGroup(HonestGroupSize)
    /\ members = [g \in 1 .. MaxGoroutines |-> [pc |-> "idle"]]
    /\ net = [channel(NoChannels, "a") EXCEPT
                !.instances[1] = Recv(@, [Type |-> "T1", Handler |-> 1])]
    /\ faults = 0
    /\ probe = [pc |-> "running", unmarshalersMutex |-> 0]

\* A goroutine calls RegisterUnmarshaler and is before the Lock.
RaceRegister ==
    /\ probe.pc = "running"
    /\ \E g \in DOMAIN members, tpe \in PayloadTypes :
        /\ members[g].pc = "idle"
        /\ members' = [members EXCEPT ![g] =
                [pc |-> "lock", op |-> "RegisterUnmarshaler", tpe |-> tpe]]
    /\ UNCHANGED <<group, net, faults, probe>>

\* unmarshalersMutex.Lock.
RaceLock ==
    /\ probe.pc = "running"
    /\ probe.unmarshalersMutex = 0
    /\ \E g \in DOMAIN members :
        /\ members[g].pc = "lock"
        /\ members' = [members EXCEPT ![g].pc = "read"]
        /\ probe' = [probe EXCEPT !.unmarshalersMutex = g]
    /\ UNCHANGED <<group, net, faults>>

\* The read of the map in RegisterUnmarshaler.
RaceRead ==
    /\ probe.pc = "running"
    /\ \E g \in DOMAIN members :
        /\ members[g].pc = "read"
        /\ LET r == RegisterUnmarshaler(net.instances[1], members[g].tpe)
           IN  members' = [members EXCEPT ![g] =
                    [pc |-> IF r.err = NoError THEN "write" ELSE "unlock",
                     op |-> "RegisterUnmarshaler",
                     tpe |-> members[g].tpe,
                     err |-> r.err]]
    /\ UNCHANGED <<group, net, faults, probe>>

\* The write of the map in RegisterUnmarshaler; a doSend that is reading
\* the map meanwhile has raced with it.
RaceWrite ==
    /\ probe.pc = "running"
    /\ \E g \in DOMAIN members :
        /\ members[g].pc = "write"
        /\ net' = [net EXCEPT !.instances[1] =
                        RegisterUnmarshaler(@, members[g].tpe).channel]
        /\ members' = [h \in DOMAIN members |->
                IF h = g THEN [members[h] EXCEPT !.pc = "unlock"]
                ELSE IF members[h].pc = "lookup"
                THEN [members[h] EXCEPT !.raced = TRUE]
                ELSE members[h]]
    /\ UNCHANGED <<group, faults, probe>>

\* unmarshalersMutex.Unlock and the return of RegisterUnmarshaler.
RaceUnlock ==
    /\ probe.pc = "running"
    /\ \E g \in DOMAIN members :
        /\ members[g].pc = "unlock"
        /\ probe.unmarshalersMutex = g
        /\ members' = [members EXCEPT ![g].pc = "returned"]
        /\ probe' = [probe EXCEPT !.unmarshalersMutex = 0]
    /\ UNCHANGED <<group, net, faults>>

\* A goroutine calls Send and doSend begins: under channelsMutex it reads
\* the channels of the name.
RaceSend ==
    /\ probe.pc = "running"
    /\ \E g \in DOMAIN members, payload \in GivenPayloads :
        /\ members[g].pc = "idle"
        /\ members' = [members EXCEPT ![g] =
                [pc |-> "resolving", op |-> "Send", payload |-> payload,
                 targetChannels |-> channelsOf(net, net.instances[1].name),
                 next |-> 1, snapshot |-> <<>>, raced |-> FALSE,
                 err |-> NoError, deliveries |-> <<>>]]
    /\ UNCHANGED <<group, net, faults, probe>>

\* doSend under identifiersMutex: Send has no recipient, so the channels
\* read before stay the targets; then it marshals the payload, and returns
\* the error or comes to the read of the map.
RaceResolve ==
    /\ probe.pc = "running"
    /\ \E g \in DOMAIN members :
        /\ members[g].pc = "resolving"
        /\ LET transportRecipient == transportRecipientOf(net.instances[1], Nil)
               targetChannels ==
                    filterTargets(net.instances, members[g].targetChannels,
                                  transportRecipient)
           IN  members' = [members EXCEPT ![g] =
                    IF MarshalError(members[g].payload) # NoError
                    THEN [@ EXCEPT !.pc = "returned",
                                   !.err = MarshalError(members[g].payload)]
                    ELSE [@ EXCEPT !.pc = "lookup",
                                   !.targetChannels = targetChannels]]
    /\ UNCHANGED <<group, net, faults, probe>>

\* The read of the map in doSend ends; it locks nothing for it.  The read
\* finds the unmarshaler and doSend unmarshals, or it does not find it.  A
\* read that raced with a write may miss what is in the map, or the
\* runtime stops the program.
RaceLookup ==
    /\ probe.pc = "running"
    /\ \E g \in DOMAIN members :
        /\ members[g].pc = "lookup"
        /\ LET payload == members[g].payload
               registered == Has(net.instances[1].unmarshalersByType, payload.type)
           IN  \/ /\ registered
                  /\ members' = [members EXCEPT ![g] =
                        IF UnmarshalError(payload.body) # NoError
                        THEN [@ EXCEPT !.pc = "returned",
                                       !.err = UnmarshalError(payload.body)]
                        ELSE IF members[g].targetChannels = <<>>
                        THEN [@ EXCEPT !.pc = "returned"]
                        ELSE [@ EXCEPT !.pc = "delivering"]]
                  /\ probe' = probe
               \/ /\ ~registered \/ members[g].raced
                  /\ members' = [members EXCEPT ![g] =
                        [@ EXCEPT !.pc = "returned",
                                  !.err = "Couldn't find unmarshaler for type "
                                            \o payload.type]]
                  /\ probe' = probe
               \/ /\ members[g].raced
                  /\ members' = members
                  /\ probe' = [probe EXCEPT !.pc = FatalError]
    /\ UNCHANGED <<group, net, faults>>

\* deliver on the next target, under its messageHandlersMutex: the
\* snapshot of its handlers.
RaceSnapshot ==
    /\ probe.pc = "running"
    /\ \E g \in DOMAIN members :
        /\ members[g].pc = "delivering"
        /\ LET target == members[g].targetChannels[members[g].next]
           IN  members' = [members EXCEPT ![g] =
                    [@ EXCEPT !.pc = "identifying",
                              !.snapshot = net.instances[target].messageHandlers]]
    /\ UNCHANGED <<group, net, faults, probe>>

\* deliver on the same target, under its identifiersMutex: the protocol
\* identifier of the sender, the message, and the goroutine that hands the
\* message to the handlers of the snapshot; doSend goes on to the next
\* target or returns nil.
RaceIdentify ==
    /\ probe.pc = "running"
    /\ \E g \in DOMAIN members :
        /\ members[g].pc = "identifying"
        /\ LET target == members[g].targetChannels[members[g].next]
               lc == [net.instances[target] EXCEPT
                        !.messageHandlers = members[g].snapshot]
               delivery == deliver(target, lc, net.instances[1].identifier,
                                [type |-> members[g].payload.type,
                                 body |-> members[g].payload.body])
           IN  members' = [members EXCEPT ![g] =
                    [@ EXCEPT !.pc = IF members[g].next = Len(members[g].targetChannels)
                                     THEN "returned" ELSE "delivering",
                              !.next = @ + 1,
                              !.snapshot = <<>>,
                              !.deliveries = Append(@, delivery)]]
    /\ UNCHANGED <<group, net, faults, probe>>

RaceNext ==
    \/ RaceRegister
    \/ RaceLock
    \/ RaceRead
    \/ RaceWrite
    \/ RaceUnlock
    \/ RaceSend
    \/ RaceResolve
    \/ RaceLookup
    \/ RaceSnapshot
    \/ RaceIdentify

SpecRace == RaceInit /\ [][RaceNext]_vars

\* C40: a goroutine reads or writes unmarshalersByType only while it holds
\* unmarshalersMutex, so a RegisterUnmarshaler and a Send or SendTo on the
\* same channel are never at the map at the same time.
C40_MapAccessedUnderMutex ==
    /\ \A g \in DOMAIN members : Accessing(g) => probe.unmarshalersMutex = g
    /\ \A g, h \in DOMAIN members : (Accessing(g) /\ Accessing(h)) => g = h

\* ------------------------------------------------------------------------
\* RequestRelayEntry on the Ethereum utility chain: the client installs its
\* watchers and submits its request while other requesters use the same
\* service contract.
\* ------------------------------------------------------------------------

\* The most relay entry requests of other requesters.
MaxRequests == 2

\* async.EventEntryGeneratedPromise: pending until the first Fulfill or
\* Fail; later calls change nothing.
NewPromise == [state |-> "pending", value |-> 0, at |-> 0]

Fulfill(promise, entry) ==
    IF promise.state = "pending"
    THEN [state |-> "fulfilled", value |-> entry.value, at |-> entry.at]
    ELSE promise

Fail(promise) ==
    IF promise.state = "pending"
    THEN [state |-> "failed", value |-> 0, at |-> 0]
    ELSE promise

\* The requests in the log of the chain that have no entry yet.
OpenRequests ==
    {n \in DOMAIN net.log :
        /\ net.log[n].event = "RelayEntryRequested"
        /\ \A k \in DOMAIN net.log :
                ~(net.log[k].event = "RelayEntryGenerated"
                    /\ net.log[k].requestId = net.log[n].requestId)}

\* The log of the chain with one more event; its place in the log is its
\* time.
Emit(event, requestId, requester) ==
    Append(net.log, [event |-> event, requestId |-> requestId,
                     requester |-> requester, at |-> Len(net.log) + 1])

\* RequestRelayEntry lines 61-79: the relay entry requested watcher is
\* installed, or it is not and WatchRelayEntryRequested returns an error,
\* which RequestRelayEntry drops: it goes on to submit either way.
WatchRelayEntryRequested(client, installed) ==
    [client EXCEPT !.pc = "watching", !.watchRequested = installed]

\* The handler of the relay entry requested watcher, lines 62-77: a relay
\* entry generated watcher is installed, or it is not and the error of
\* WatchRelayEntryGenerated is dropped.
OnRelayEntryRequested(client, event, installed) ==
    [client EXCEPT !.watchGenerated = IF installed THEN @ + 1 ELSE @,
                   !.observed = Append(@, event)]

\* onWatchError, lines 52-55: the promise fails.
onWatchError(client) == [client EXCEPT !.promise = Fail(@)]

\* The handler of a relay entry generated watcher, lines 69-74.
OnRelayEntryGenerated(client, event) ==
    [client EXCEPT !.promise = Fulfill(@, [value |-> event.requestId, at |-> event.at])]

RelayInit ==
    /\ group = NewGroup(HonestGroupSize)
    /\ members = << >>
    /\ net = [log |-> <<>>]
    /\ faults = 0
    /\ probe = [pc |-> "called", promise |-> NewPromise,
                watchRequested |-> FALSE, watchGenerated |-> 0,
                submitted |-> FALSE, observed |-> <<>>,
                requested |-> <<>>, generated |-> <<>>]

\* EntryFeeEstimate returns the payment or an error; with an error the
\* promise fails and RequestRelayEntry returns.
RelayEstimate ==
    /\ probe.pc = "called"
    /\ \E failed \in BOOLEAN :
        probe' = IF failed
                 THEN [probe EXCEPT !.pc = "returned", !.promise = Fail(@)]
                 ELSE [probe EXCEPT !.pc = "estimated"]
    /\ UNCHANGED <<group, members, net, faults>>

\* The relay entry requested watcher is installed, or is not.
RelayWatch ==
    /\ probe.pc = "estimated"
    /\ \E installed \in BOOLEAN :
        probe' = WatchRelayEntryRequested(probe, installed)
    /\ UNCHANGED <<group, members, net, faults>>

\* The subscription of the relay entry requested watcher reports an error
\* and ends: onWatchError runs.  The events it was handed before are
\* still handled.
RelayRequestedWatchError ==
    /\ probe.watchRequested
    /\ probe' = [onWatchError(probe) EXCEPT !.watchRequested = FALSE]
    /\ UNCHANGED <<group, members, net, faults>>

\* The subscription of a relay entry generated watcher reports an error
\* and ends: onWatchError runs.
RelayGeneratedWatchError ==
    /\ probe.watchGenerated > 0
    /\ probe' = [onWatchError(probe) EXCEPT !.watchGenerated = @ - 1]
    /\ UNCHANGED <<group, members, net, faults>>

\* The request transaction is submitted, or its submission fails and so
\* does the promise; RequestRelayEntry returns the promise.
RelaySubmit ==
    /\ probe.pc = "watching"
    /\ \E failed \in BOOLEAN :
        probe' = IF failed
                 THEN [probe EXCEPT !.pc = "returned", !.promise = Fail(@)]
                 ELSE [probe EXCEPT !.pc = "returned", !.submitted = TRUE]
    /\ UNCHANGED <<group, members, net, faults>>

\* The subscriptions of the client get the event if they are installed.
Notify(client, event) ==
    [client EXCEPT
        !.requested = IF event.event = "RelayEntryRequested" /\ client.watchRequested
                      THEN Append(@, event) ELSE @,
        !.generated = IF event.event = "RelayEntryGenerated" /\ client.watchGenerated > 0
                      THEN Append(@, event) ELSE @]

\* The request of the client is confirmed on the chain.
ChainConfirm ==
    /\ probe.submitted
    /\ \A n \in DOMAIN net.log : net.log[n].requester # "client"
    /\ LET log == Emit("RelayEntryRequested", Len(net.log) + 1, "client")
       IN  /\ net' = [net EXCEPT !.log = log]
           /\ probe' = Notify(probe, log[Len(log)])
    /\ UNCHANGED <<group, members, faults>>

\* The request of another requester is confirmed on the chain.
ChainRequest ==
    /\ Cardinality({n \in DOMAIN net.log :
            net.log[n].event = "RelayEntryRequested"
                /\ net.log[n].requester = "other"}) < MaxRequests
    /\ LET log == Emit("RelayEntryRequested", Len(net.log) + 1, "other")
       IN  /\ net' = [net EXCEPT !.log = log]
           /\ probe' = Notify(probe, log[Len(log)])
    /\ UNCHANGED <<group, members, faults>>

\* The group submits the entry of the oldest request without one.
ChainEntry ==
    /\ OpenRequests # {}
    /\ LET log == Emit("RelayEntryGenerated", net.log[MinOf(OpenRequests)].requestId,
                       net.log[MinOf(OpenRequests)].requester)
       IN  /\ net' = [net EXCEPT !.log = log]
           /\ probe' = Notify(probe, log[Len(log)])
    /\ UNCHANGED <<group, members, faults>>

\* The client handles the next relay entry requested event.
RelayOnRequested ==
    /\ probe.requested # <<>>
    /\ \E installed \in BOOLEAN :
        probe' = [OnRelayEntryRequested(probe, Head(probe.requested), installed)
                    EXCEPT !.requested = Tail(@)]
    /\ UNCHANGED <<group, members, net, faults>>

\* The client handles the next relay entry generated event.
RelayOnGenerated ==
    /\ probe.generated # <<>>
    /\ probe' = [OnRelayEntryGenerated(probe, Head(probe.generated))
                    EXCEPT !.generated = Tail(@)]
    /\ UNCHANGED <<group, members, net, faults>>

RelayNext ==
    \/ RelayEstimate
    \/ RelayWatch
    \/ RelayRequestedWatchError
    \/ RelayGeneratedWatchError
    \/ RelaySubmit
    \/ ChainConfirm
    \/ ChainRequest
    \/ ChainEntry
    \/ RelayOnRequested
    \/ RelayOnGenerated

SpecRelay == RelayInit /\ [][RelayNext]_vars

\* When the request of the client was confirmed; 0 if it was not.
ConfirmedAt ==
    IF \E n \in DOMAIN net.log :
            net.log[n].event = "RelayEntryRequested" /\ net.log[n].requester = "client"
    THEN CHOOSE n \in DOMAIN net.log :
            net.log[n].event = "RelayEntryRequested" /\ net.log[n].requester = "client"
    ELSE 0

\* C31: a relay entry generated watcher is installed only after a relay
\* entry requested event was observed, and the promise is never fulfilled
\* with an entry generated before the request of this call was confirmed.
C31_NoEntryFromBeforeTheRequest ==
    /\ probe.watchGenerated > 0 => probe.observed # <<>>
    /\ probe.promise.state = "fulfilled" =>
            /\ ConfirmedAt > 0
            /\ probe.promise.at > ConfirmedAt

====
